---- MODULE Spec2Model ----
(***************************************************************************)
(* StatBot Pro: the secure execution sandbox (SecureExecutor) and the      *)
(* retry loop of StatBotAgent.process_question, src/agent.py.              *)
(*                                                                         *)
(* Two threads are modelled: the caller thread, which runs                 *)
(* process_question and, inside it, execute_code; and the worker thread(s) *)
(* of the ThreadPoolExecutor, which run _execute_with_monitoring.          *)
(*                                                                         *)
(* A program text is abstracted to what the two validators and exec() can  *)
(* tell about it: the set of syntactic features it contains (feat) and     *)
(* what running it does (beh), together with the function that wrote it    *)
(* (by).                                                                   *)
(*                                                                         *)
(* The application state of src/main.py (sessions, rate limits, the lock)  *)
(* and the request tasks of the event loop have a specification of their   *)
(* own, ServerSpec, and so has the code generation for a specific query,   *)
(* QuerySpec.  AppSpec adds the handlers main.py registers first and the   *)
(* cleanup task; LimitsSpec starts from every platform the resource        *)
(* limits can be set on.                                                   *)
(*                                                                         *)
(* The objects of src/monitoring.py are used by threads of their own:      *)
(* MetricsSpec (threads recording requests and reading summaries),         *)
(* StoreSpec (one thread filling a store) and MonitorSpec (the thread that *)
(* starts and stops the SystemMonitor, and its loop threads).              *)
(***************************************************************************)
EXTENDS Integers, Sequences, FiniteSets, TLC

\* ------------------------------------------------------------------ bounds
MaxCalls == 2          \* process_question calls made on the one agent
MaxRetries == 2        \* largest configured max_retries (0..MaxRetries)
MaxDepth == 3          \* deepest nesting of the syntax trees validated
MaxRuns == 3           \* most runs of characters in a captured text

\* -------------------------------------------------------- program constants
max_workers == 1       \* ThreadPoolExecutor(max_workers=1)

Orig == 0              \* the stream installed before any redirection
None == 0              \* Python None where a task id / file id is expected

VARIABLES
    max_retries,            \* StatBotAgent.max_retries
    tasks,                  \* futures of the executor: id -> record
    queue,                  \* the executor's work queue (task ids)
    next_id,                \* id of the next future to be created
    sys_stdout,             \* process-wide sys.stdout: Orig or a task's buffer
    sys_stderr,             \* process-wide sys.stderr
    figures,                \* plt.get_fignums() is non-empty
    static_files,           \* chart files present in static/
    pc,                     \* caller's position in process_question
    calls,                  \* number of process_question calls started
    requires_visualization, \* intent['requires_visualization'] of this call
    request,                \* the (df, question) arguments of this call
    http_status,            \* status of ask_question's response, if any
    attempt,                \* loop variable of process_question
    code,                   \* the program of the current attempt
    last_error,             \* words found in the last error message
    last_error_type,        \* type name of the last error
    cur,                    \* the future execute_code is waiting for
    entry_stdout,           \* sys.stdout when execute_code was entered
    entry_stderr,           \* sys.stderr when execute_code was entered
    ex_result,              \* what execute_code returned or raised
    outcome,                \* what process_question returned or raised
    execs,                  \* programs of this call that exec() has started
    failed_runs,            \* attempts of this call that gave success=False
    table,                  \* the content of the caller's DataFrame
    fn_in,                  \* input of the pure function under check
    fn_out,                 \* what the function made of it
    reqs,                   \* the HTTP requests received, in arrival order
    lock,                   \* app_state._lock: Unlocked or the task in it
    sessions,               \* app_state.sessions
    request_counts,         \* app_state.request_counts
    clock,                  \* datetime.now()
    running,                \* the task the event loop is running, if any
    current_dataframe,      \* main.py's global current_dataframe
    rlimits,                \* the process's RLIMIT_AS and RLIMIT_CPU
    modules,                \* state of the modules in ALLOWED_MODULES
    metrics_collector,      \* the MetricsCollector (monitoring.py)
    system_monitor,         \* the SystemMonitor
    health_checker,         \* the HealthChecker
    threads                 \* threads that use the monitoring objects

vars == <<max_retries, tasks, queue, next_id, sys_stdout, sys_stderr, figures,
          static_files, pc, calls, requires_visualization, attempt, code,
          last_error, last_error_type, cur, entry_stdout, entry_stderr,
          ex_result, outcome, execs, failed_runs, request, http_status,
          table, fn_in, fn_out, reqs, lock, sessions, request_counts, clock,
          running, current_dataframe, rlimits, modules, metrics_collector,
          system_monitor, health_checker, threads>>

\* The state of the HTTP layer (main.py).
serverVars == <<reqs, lock, sessions, request_counts, clock, running,
                current_dataframe>>

\* The state of the monitoring objects (monitoring.py).
monitoringVars == <<metrics_collector, system_monitor, health_checker,
                    threads>>

\* What no step of the caller assigns, and of the worker only exec().
frameVars == <<max_retries, table, fn_in, fn_out, serverVars, rlimits,
               modules, monitoringVars>>

\* The state of the executor, of the agent and of the caller.
programVars == <<rlimits, modules,
                 max_retries, table, tasks, queue, next_id, sys_stdout,
                 sys_stderr, figures, static_files, pc, calls,
                 requires_visualization, request, http_status, attempt, code,
                 last_error, last_error_type, cur, entry_stdout, entry_stderr,
                 ex_result, outcome, execs, failed_runs>>

sandboxVars == <<tasks, queue, next_id, sys_stdout, sys_stderr, figures,
                 static_files>>
callerVars == <<pc, calls, requires_visualization, request, http_status,
                attempt, code, last_error,
                last_error_type, cur, entry_stdout, entry_stderr, ex_result,
                outcome>>

\* ------------------------------------------------------------ the programs
\* A program is described by what the two validation passes can find in
\* it (feat) and by what it does when it is run (beh).  A finding is
\*   Node(kind)     a node of that type in the syntax tree
\*   Attr(name)     an Attribute node with that attr
\*   Call(name)     a Call node whose func is the Name with that id
\*   ParseError(e)  ast.parse raised e instead of returning a tree
\*   Text(piece)    a piece of the lowercased source text
Node(kind) == [k |-> "node", v |-> kind]
Attr(name) == [k |-> "attr", v |-> name]
Call(name) == [k |-> "call", v |-> name]
ParseError(e) == [k |-> "parse", v |-> e]
Text(piece) == [k |-> "text", v |-> piece]

\* SecureExecutor.BLOCKED_AST_NODES
BLOCKED_AST_NODES ==
    {"Import", "ImportFrom", "FunctionDef", "AsyncFunctionDef", "ClassDef",
     "Global", "Nonlocal", "Delete", "With", "AsyncWith", "Try",
     "ExceptHandler", "Raise", "Assert"}

\* SecureExecutor.BLOCKED_ATTRIBUTES
BLOCKED_ATTRIBUTES ==
    {"__class__", "__bases__", "__subclasses__", "__mro__", "__dict__",
     "__globals__", "__locals__", "__code__", "__func__", "__self__",
     "__module__", "__qualname__"}

\* SecureExecutor.BLOCKED_BUILTINS
BLOCKED_BUILTINS ==
    {"open", "exec", "eval", "compile", "__import__", "input", "raw_input",
     "file", "execfile", "reload", "vars", "dir", "globals", "locals",
     "delattr", "setattr", "getattr", "hasattr", "callable", "isinstance",
     "issubclass", "super", "property", "staticmethod", "classmethod"}

\* The regular expressions of _validate_code_patterns
dangerous_patterns ==
    {"__.*__", "import\\s+os", "import\\s+sys",
     "import\\s+subprocess", "from\\s+os", "from\\s+sys",
     "from\\s+subprocess", "exec\\s*\\(", "eval\\s*\\(",
     "compile\\s*\\(", "open\\s*\\(", "file\\s*\\(",
     "input\\s*\\(", "raw_input\\s*\\(", "\\.system\\s*\\(",
     "\\.popen\\s*\\(", "\\.call\\s*\\(", "\\.run\\s*\\(",
     "\\.Popen\\s*\\("}

\* The identifiers, attribute names and string constants of the programs
\* considered here.
Names == {"df", "print", "open", "getattr", "__import__"}
Attrs == {"mean", "run", "__class__"}
Constants == {"total", "import os"}

\* re.search(p, piece) for the pieces of text these programs are made of:
\* a name, a name followed by "(", an attribute access, a method call, a
\* string constant.  (A match that spans several pieces is not modelled.)
MatchedBy(p) ==
    CASE p = "__.*__" ->
           {"__import__", "__import__(", ".__class__", ".__class__("}
      [] p = "import\\s+os" ->
           {"import os"}
      [] p = "open\\s*\\(" ->
           {"open("}
      [] p = "\\.run\\s*\\(" ->
           {".run("}
      [] OTHER -> {}

\* The patterns that match a finding.
PatternHits(f) ==
    IF f.k = "text" THEN {p \in dangerous_patterns : f.v \in MatchedBy(p)}
    ELSE {}

\* The findings for which the loop of _validate_code_ast raises, and the
\* SyntaxError of ast.parse, which it turns into SecurityError.
StructurallyBlocked(f) ==
    \/ (f.k = "parse" /\ f.v = "SyntaxError")
    \/ (f.k = "node" /\ f.v \in BLOCKED_AST_NODES)
    \/ (f.k = "attr" /\ f.v \in BLOCKED_ATTRIBUTES)
    \/ (f.k = "call" /\ f.v \in BLOCKED_BUILTINS)

\* The findings of three programs the validators refuse: one with a
\* try/except block, one that reads x.__class__, one that calls x.run().
TryExcept == {Node("Try"), Node("ExceptHandler")}
DunderAccess == {Node("Attribute"), Attr("__class__"), Text(".__class__")}
RunCall == {Node("Call"), Node("Attribute"), Attr("run"), Text(".run(")}
Features == {TryExcept, DunderAccess, RunCall}

\* ------------------------------------------------------------ syntax trees
\* A node of a syntax tree: its type, its id (Name), attr (Attribute) or
\* value (Constant), and its children: the value of an Attribute, the func
\* of a Call, the body of an If.  A node of a blocked type is a leaf here:
\* what is below it does not change the verdict.
Leaf(kind, id) == [kind |-> kind, id |-> id, kids |-> <<>>]
Inner(kind, id, kid) == [kind |-> kind, id |-> id, kids |-> <<kid>>]

\* Expressions nested at most d deep.
RECURSIVE Exprs(_)
Exprs(d) ==
    LET atoms == {Leaf("Name", n) : n \in Names}
                 \cup {Leaf("Constant", c) : c \in Constants}
    IN  IF d = 0 THEN atoms
        ELSE atoms
             \cup {Inner("Attribute", a, e) : a \in Attrs, e \in Exprs(d - 1)}
             \cup {Inner("Call", "", e) : e \in Exprs(d - 1)}

\* Statements nested at most d deep: a blocked statement, an expression
\* statement, or an if statement around a statement.
RECURSIVE Stmts(_)
Stmts(d) ==
    {Leaf(k, "") : k \in BLOCKED_AST_NODES}
    \cup Exprs(d)
    \cup (IF d = 0 THEN {} ELSE {Inner("If", "", b) : b \in Stmts(d - 1)})

\* What ast.parse makes of a source text: a tree, a SyntaxError, or, on
\* source nested too deeply for the parser, a MemoryError.
NoSource == [parse |-> "none", tree |-> Leaf("Module", "")]
Sources ==
    {[parse |-> "tree", tree |-> t] : t \in Stmts(MaxDepth)}
    \cup {[parse |-> e, tree |-> Leaf("Module", "")] :
             e \in {"SyntaxError", "MemoryError"}}

\* ast.walk(tree): the node and all its descendants
RECURSIVE Walk(_)
Walk(n) == {n} \cup UNION {Walk(n.kids[i]) : i \in DOMAIN n.kids}

\* What the body of the loop in _validate_code_ast looks at in one node.
NodeFindings(n) ==
    {Node(n.kind)}
    \cup (IF n.kind = "Attribute" THEN {Attr(n.id)} ELSE {})
    \cup (IF n.kind = "Call" /\ n.kids[1].kind = "Name"
          THEN {Call(n.kids[1].id)} ELSE {})

\* The piece of source text a node stands for.
NodeText(n) ==
    IF n.kind \in {"Name", "Constant"} THEN {Text(n.id)}
    ELSE IF n.kind = "Attribute" THEN {Text("." \o n.id)}
    ELSE IF n.kind = "Call" /\ n.kids[1].kind = "Name"
    THEN {Text(n.kids[1].id \o "(")}
    ELSE IF n.kind = "Call" /\ n.kids[1].kind = "Attribute"
    THEN {Text("." \o n.kids[1].id \o "(")}
    ELSE {}

\* The program with the findings of a source text: those of every node
\* ast.walk visits, and the text.  It is not run.
ProgramOf(src) ==
    [feat |-> IF src.parse # "tree" THEN {ParseError(src.parse)}
              ELSE UNION {NodeFindings(n) \cup NodeText(n) :
                             n \in Walk(src.tree)},
     beh |-> "none", by |-> "text"]

\* What exec(code) does: print and finish ("ok"), finish with a figure open
\* ("chart"), change df in place, print, write to sys.stderr and finish
\* ("ok_effects"), raise an ordinary exception, raise MemoryError, raise
\* KeyboardInterrupt, or never finish ("hang").
RaiseBehaviours == {"raise_key", "raise_plot", "raise_mem", "raise_other"}
Completing == {"ok", "chart", "ok_effects"}
Behaviours == Completing \cup {"hang", "memory", "interrupt"}
                  \cup RaiseBehaviours

\* The programs that leave a figure open: "chart", "raise_plot", which
\* raises in a plotting call after the figure was created, and "memory",
\* which runs out of memory while it draws.
OpensFigure(beh) == beh \in {"chart", "raise_plot", "memory"}

\* The programs that assign into df: "ok_effects" adds a column (and sets
\* an attribute of a module, see ChangesModule), and
\* "raise_key" drops a column in place and then reads it.
MutatesDf(beh) == beh \in {"ok_effects", "raise_key"}

\* type(e).__name__ and the fixer-relevant words of str(e) for an ordinary
\* exception raised by the program.
ErrorTypeOf(beh) ==
    CASE beh = "raise_key" -> "KeyError"
      [] beh = "raise_plot" -> "ValueError"
      [] beh = "raise_mem" -> "RuntimeError"
      [] OTHER -> "ZeroDivisionError"

ErrorWordsOf(beh) ==
    CASE beh = "raise_key" -> {}
      [] beh = "raise_plot" -> {"plot"}
      [] beh = "raise_mem" -> {"memory"}
      [] OTHER -> {}

\* Programs the code generator can emit for attempt 1.  Column names and the
\* filter value are pasted into the text, so an emitted program can have
\* any findings; a rejected program is never run, so its behaviour is fixed.
\* by names the function that wrote the program.
Programs ==
    {[feat |-> {}, beh |-> b, by |-> "generator"] : b \in Behaviours}
    \cup {[feat |-> f, beh |-> "ok", by |-> "generator"] : f \in Features}

NoProgram == [feat |-> {}, beh |-> "none", by |-> "none"]

\* Mutant: the structural pass accepts everything.
validate_code_ast_off(c) == TRUE

\* SecureExecutor._validate_code_ast: TRUE iff it does not raise
\* SecurityError.
validate_code_ast(c) == \A f \in c.feat : ~StructurallyBlocked(f)

\* ast.parse fails with an exception that is not a SyntaxError (the parser
\* runs out of stack on deeply nested source and raises MemoryError), which
\* leaves _validate_code_ast uncaught.
ParserFails(c) == ParseError("MemoryError") \in c.feat

\* SecureExecutor._validate_code_patterns: TRUE iff it returns without raising.
validate_code_patterns(c) == \A f \in c.feat : PatternHits(f) = {}

\* execute_code, lines 362 to 365 and the handlers at 387 to 391: the
\* exception the validation of a program ends with, or "accepted".
ValidationOutcome(c) ==
    IF ParserFails(c) THEN "ExecutionError"
    ELSE IF ~validate_code_ast(c) THEN "SecurityError"
    ELSE IF ~validate_code_patterns(c) THEN "SecurityError"
    ELSE "accepted"

\* StatBotAgent._fix_code_intelligently: the branch taken, then the program.
FixBranch(error, error_type) ==
    IF error_type = "KeyError" \/ "KeyError" \in error THEN "key"
    ELSE IF "matplotlib" \in error \/ "plot" \in error THEN "plot"
    ELSE IF "memory" \in error \/ "timeout" \in error THEN "memory"
    ELSE "generic"

\* The generic fallback wraps its analysis in try/except; the other three
\* branches emit straight-line code.  What the fixed program does when run
\* depends on the table, so its behaviour is an input (b).
fix_code_intelligently(error, error_type, b) ==
    IF FixBranch(error, error_type) = "generic"
    THEN [feat |-> TryExcept, beh |-> b, by |-> "generic"]
    ELSE [feat |-> {}, beh |-> b, by |-> FixBranch(error, error_type)]

\* --------------------------------------------------------------------- text
\* A text is a sequence of runs of characters of one kind: "x" for visible
\* characters, "ws" for whitespace (blanks and newlines), "m" for the words
\* of the truncation marker.  by is the run whose program wrote the
\* characters, None for text that no program wrote.
Run(ch, n, by) == [ch |-> ch, n |-> n, by |-> by]

\* len(text)
RECURSIVE TextLen(_)
TextLen(s) == IF s = <<>> THEN 0 ELSE Head(s).n + TextLen(Tail(s))

\* text[:k]
RECURSIVE TakeChars(_, _)
TakeChars(s, k) ==
    IF k = 0 \/ s = <<>> THEN <<>>
    ELSE IF Head(s).n <= k
    THEN <<Head(s)>> \o TakeChars(Tail(s), k - Head(s).n)
    ELSE <<[Head(s) EXCEPT !.n = k]>>

\* text.strip(): leading and trailing whitespace removed
RECURSIVE LStrip(_)
LStrip(s) == IF s # <<>> /\ Head(s).ch = "ws" THEN LStrip(Tail(s)) ELSE s

RECURSIVE RStrip(_)
RStrip(s) ==
    IF s # <<>> /\ s[Len(s)].ch = "ws"
    THEN RStrip(SubSeq(s, 1, Len(s) - 1)) ELSE s

Strip(s) == RStrip(LStrip(s))

MAX_OUTPUT_SIZE == 10000

\* "\n... (output truncated)": a newline and 22 further characters
TruncationMarker == <<Run("ws", 1, None), Run("m", 22, None)>>

\* Mutant: the output is reported as captured.
limit_output_off(output) == output

\* if len(output) > self.MAX_OUTPUT_SIZE: output = output[:...] + marker
limit_output(output) ==
    IF TextLen(output) > MAX_OUTPUT_SIZE
    THEN TakeChars(output, MAX_OUTPUT_SIZE) \o TruncationMarker
    ELSE output

\* 'output': output.strip() of the limited text
reported_output(captured) == Strip(limit_output(captured))

\* What print(...) of run t writes: the text and a newline.
Printed(t) == <<Run("x", 1, t), Run("ws", 1, t)>>

\* What a warning of run t's program writes to sys.stderr.
Warned(t) == <<Run("x", 1, t), Run("ws", 1, t)>>

\* ------------------------------------------------------------ result values
NoResult == [kind |-> "none"]
Raised(exc, words) == [kind |-> "raise", exc |-> exc, words |-> words]

\* The dictionaries _execute_with_monitoring returns: keys is the set of
\* keys of the dictionary, the other fields are what result.get(key) gives.
SuccessResult(output, errors, chart_url) ==
    [kind |-> "result", success |-> TRUE, output |-> output,
     errors |-> errors, chart_url |-> chart_url, error |-> {},
     error_type |-> "None",
     keys |-> {"success", "output", "errors", "chart_url", "execution_time",
               "locals"}]

FailureResult(error, error_type) ==
    [kind |-> "result", success |-> FALSE, output |-> <<>>,
     errors |-> <<>>, chart_url |-> None, error |-> error,
     error_type |-> error_type,
     keys |-> {"success", "error", "error_type", "traceback",
               "execution_time"}]

\* 'answer': result.get('output') or "Analysis completed successfully"
DefaultAnswer == <<Run("x", 31, None)>>
AnswerText(output) == IF output = <<>> THEN DefaultAnswer ELSE output

\* Mutant: the answer reports the retry budget and loses the chart.
SuccessAnswer_budget(result, n, viz) ==
    [kind |-> "answer", answer |-> AnswerText(result.output),
     chart_url |-> None, analysis_type |-> "computation",
     attempts |-> n + 1, error |-> {}, error_type |-> "None"]

\* The dictionaries process_question returns.
SuccessAnswer(result, n, viz) ==
    [kind |-> "answer",
     answer |-> AnswerText(result.output),
     chart_url |-> result.chart_url,
     analysis_type |-> IF result.chart_url # None THEN "visualization"
                       ELSE IF viz THEN "visualization_attempted"
                       ELSE "computation",
     attempts |-> n, error |-> {}, error_type |-> "None"]

\* "Analysis failed after ... attempts. Last error: ..."
FailureText == <<Run("x", 1, None)>>

FailureAnswer(error, error_type, n) ==
    [kind |-> "answer", answer |-> FailureText, chart_url |-> None,
     analysis_type |-> "error", attempts |-> n,
     error |-> error, error_type |-> error_type]

ReturnedNone == [kind |-> "returned_none"]

\* The object a name refers to: the caller's table, or a copy made for run t.
Caller == 0

\* Mutant: the namespace refers to the caller's table itself.
BindDf_alias(tbl, t) == [owner |-> Caller, data |-> tbl]

\* safe_globals['df'] = df.copy()
BindDf(tbl, t) == [owner |-> t, data |-> tbl]

\* The list of names in _create_safe_globals
SafeBuiltinNames ==
    {"len", "str", "int", "float", "bool", "list", "dict", "tuple", "set",
     "range", "enumerate", "zip", "sorted", "sum", "min", "max", "abs",
     "round", "type", "print"}

\* Names in the interpreter's __builtins__: the listed safe ones, the
\* blocked ones Python 3 still has, and some that are on neither list.
PythonBuiltins ==
    SafeBuiltinNames
    \cup (BLOCKED_BUILTINS \ {"raw_input", "file", "execfile", "reload"})
    \cup {"id", "map", "filter", "object", "memoryview", "breakpoint",
          "help", "iter", "next", "bytes", "Exception", "__build_class__"}

\* Mutant: every built-in that is not blocked is exposed.
create_safe_builtins_denylist_only(builtins) ==
    {name \in builtins : name \notin BLOCKED_BUILTINS}

\* _create_safe_globals: the keys of safe_builtins
create_safe_builtins(builtins) ==
    {name \in builtins :
        name \notin BLOCKED_BUILTINS /\ name \in SafeBuiltinNames}

\* A future of the executor together with the frame of
\* _execute_with_monitoring that runs for it.
NewTask(c, call, n, df, safe_builtins) ==
    [state |-> "pending", code |-> c, call |-> call, attempt |-> n, df |-> df,
     safe_builtins |-> safe_builtins,
     wpc |-> "queued", old_stdout |-> Orig, old_stderr |-> Orig,
     captured_output |-> <<>>, captured_errors |-> <<>>, cancel_called |-> FALSE, result |-> NoResult]

Running == {t \in DOMAIN tasks : tasks[t].state = "running"}

\* The tasks table without task t (the future is no longer referenced).
Drop(f, t) == [u \in (DOMAIN f) \ {t} |-> f[u]]

\* ------------------------------------------------- process_question, inputs
\* The tables a caller may pass: None, a table without rows, a table with rows.
DataFrames == {"None", "empty", "rows"}

\* The questions a caller may pass: None, "", blanks only, a sentence.
Questions == {"None", "", "blank", "text"}

\* Before the first call there are no arguments.
NoRequest == [df |-> "None", question |-> "None"]

\* Mutant: the question is only compared with the empty string.
ValidInput_no_strip(df, question) ==
    /\ df \notin {"None", "empty"}
    /\ question \notin {"None", ""}

\* if df is None or df.empty: raise ...
\* if not question or not question.strip(): raise ...
ValidInput(df, question) ==
    /\ ~(df = "None" \/ df = "empty")
    /\ ~(question \in {"None", ""} \/ question = "blank")

\* The content of the caller's table, as a version number: what a program
\* does to a table it can reach adds one.
OriginalData == 0

\* No response has been sent for this call.
NoStatus == 0

\* No function is under check: no input has been drawn, nothing computed.
NoInput == [fn |-> "none", src |-> NoSource, text |-> <<>>]
NoOutput == [outcome |-> "none", output |-> <<>>]

\* ------------------------------------------- main.py: the application state
\* The HTTP layer: requests are tasks of one asyncio event loop; they share
\* app_state (sessions, request_counts) under app_state._lock, an
\* asyncio.Lock, which has no owner and is not reentrant.
MaxRequests == 3       \* requests received by the server
MaxTime == 2           \* readings of datetime.now(): 0..MaxTime
RATE_LIMIT_REQUESTS == 2   \* config.RATE_LIMIT_REQUESTS (100 by default)

\* timedelta(hours=1), in clock readings: a reading is half an hour.
HOUR == 2

\* question_request.session_id is None (or empty).
NoSessionId == 0

\* app_state._lock is not locked.
Unlocked == 0

\* The event loop is between two tasks.
Idle == 0

\* The time a request was admitted by check_rate_limit, if it was not.
NotAdmitted == 0 - 1

\* Client addresses, as get_client_ip reports them.
ClientIps == {"10.0.0.1", "10.0.0.2"}

\* A call of a coroutine of ApplicationState: about to enter
\* "async with self._lock" ("acquire"), inside it ("locked"), or inside it
\* with its awaited call returned ("resumed").
Frame(fn) == [fn |-> fn, at |-> "acquire"]

\* A key the updates dictionary does not have.
KeepText == "absent"
KeepCount == 0 - 1

Updates(dataframe, question_count) ==
    [dataframe |-> dataframe, question_count |-> question_count]
NoUpdates == Updates(KeepText, KeepCount)

\* A request: the handler that serves it, its position in the handler (at),
\* the ApplicationState coroutines it is inside (stack), and what those
\* returned to it.
NewRequest(kind, ip, session_id) ==
    [kind |-> kind, ip |-> ip, session_id |-> session_id, at |-> "start",
     stack |-> <<>>, allowed |-> FALSE, admitted_at |-> NotAdmitted,
     updates |-> NoUpdates, status |-> NoStatus, detail |-> "",
     asked |-> FALSE]

\* The dictionary get_session creates for an unknown session id.
NewSession(now) ==
    [dataframe |-> "None", question_count |-> 0, last_activity |-> now]

\* get_session, inside the lock: the sessions after it.
get_session(table_of, session_id, now) ==
    IF session_id \in DOMAIN table_of THEN table_of
    ELSE [s \in DOMAIN table_of \cup {session_id} |->
             IF s = session_id THEN NewSession(now) ELSE table_of[s]]

\* update_session after get_session returned: session.update(updates) and
\* session['last_activity'] = datetime.now()
update_session(table_of, session_id, updates, now) ==
    [table_of EXCEPT ![session_id] =
        [dataframe |-> IF updates.dataframe = KeepText THEN @.dataframe
                       ELSE updates.dataframe,
         question_count |-> IF updates.question_count = KeepCount
                            THEN @.question_count
                            ELSE updates.question_count,
         last_activity |-> now]]

\* timedelta(hours=24), in clock readings.
DAY == 24 * HOUR

\* Mutant: a session is expired as soon as it is 24 hours old.
Expired_at_cutoff(session, now) == session.last_activity <= now - DAY

\* cutoff_time = datetime.now() - timedelta(hours=24);
\* session['last_activity'] < cutoff_time
Expired(session, now) == session.last_activity < now - DAY

\* cleanup_old_sessions, inside the lock: the sessions after it.
cleanup_old_sessions(table_of, now) ==
    LET kept == {s \in DOMAIN table_of : ~Expired(table_of[s], now)}
    IN  [s \in kept |-> table_of[s]]

\* The recorded request times of a client.
TimesOf(counts, ip) == IF ip \in DOMAIN counts THEN counts[ip] ELSE <<>>

\* [req_time for req_time in ... if req_time > hour_ago]
RecentRequests(times, now) ==
    LET Recent(req_time) == req_time > now - HOUR
    IN  SelectSeq(times, Recent)

\* Mutant: the limit is compared with ">" instead of ">=".
LimitReached_off_by_one(times) == Len(times) > RATE_LIMIT_REQUESTS

\* if len(self.request_counts[client_ip]) >= RATE_LIMIT_REQUESTS
LimitReached(times) == Len(times) >= RATE_LIMIT_REQUESTS

\* check_rate_limit, inside the lock: what it returns and the
\* request_counts after it.
check_rate_limit(counts, client_ip, now) ==
    LET kept == RecentRequests(TimesOf(counts, client_ip), now)
        admit == ~LimitReached(kept)
        times == IF admit THEN Append(kept, now) ELSE kept
    IN  [ret |-> admit,
         counts |-> [ip \in DOMAIN counts \cup {client_ip} |->
                        IF ip = client_ip THEN times ELSE counts[ip]]]

\* The statuses ask_question answers with once process_question was called.
AgentStatuses == {200, 403, 408, 422, 500}

\* app_state after ApplicationState.__init__, and no request received yet.
Started ==
    /\ reqs = <<>>
    /\ lock = Unlocked
    /\ sessions = [s \in {} |-> NewSession(0)]
    /\ request_counts = [ip \in {} |-> <<>>]
    /\ clock = 0
    /\ running = Idle
    /\ current_dataframe = "None"

\* ------------------------------------------ monitoring.py: the objects
MaxPoints == 3         \* MetricsCollector(max_points=...), 1000 by default
TIMERS_KEPT == 100     \* record_timer keeps self.timers[name][-100:]
ALERTS_KEPT == 100     \* add_alert keeps self.alerts[-100:]
REQUEST_TIMES_KEPT == 1000   \* deque(maxlen=1000)

\* The metric record_timer('request_duration', ...) appends averages to,
\* and a metric set_gauge is called for.
TimerMetric == "request_duration_avg"
GaugeMetric == "system_cpu_percent"

\* MetricsCollector.__init__.  metrics and timers are defaultdicts: a name
\* that was never used has an empty history; one timer name, its metric
\* and one gauge's metric are followed.  lock is Unlocked or the thread
\* inside "with self._lock".
NewCollector(max_points) ==
    [max_points |-> max_points,
     metrics |-> [name \in {TimerMetric, GaugeMetric} |-> <<>>],
     timers |-> <<>>, request_times |-> <<>>, request_count |-> 0,
     error_count |-> 0, success_count |-> 0, lock |-> Unlocked]

\* SystemMonitor.__init__
NewMonitor == [monitoring |-> FALSE, monitor_thread |-> None]

\* HealthChecker.__init__, the alerts
NewChecker == [alerts |-> <<>>]

\* No thread uses the monitoring objects.
NoThreads == <<>>

\* The module-level objects of monitoring.py, unused.
Unmonitored ==
    /\ metrics_collector = NewCollector(MaxPoints)
    /\ system_monitor = NewMonitor
    /\ health_checker = NewChecker
    /\ threads = NoThreads

\* deque(maxlen=maxlen).append(x): a full deque drops its oldest entry.
deque_append(d, x, maxlen) ==
    IF Len(d) >= maxlen THEN Append(Tail(d), x) ELSE Append(d, x)

\* Mutant: the list is never cut.
keep_recent_all(list, n) == list

\* if len(list) > n: list = list[-n:]
keep_recent(list, n) ==
    IF Len(list) > n THEN SubSeq(list, Len(list) - n + 1, Len(list))
    ELSE list

\* sum(list)
RECURSIVE sum(_)
sum(list) == IF list = <<>> THEN 0 ELSE Head(list) + sum(Tail(list))

\* Mutant: "with self._lock" is entered whether or not the lock is held.
LockFree_ignored(collector) == TRUE

\* threading.Lock.acquire returns when the lock is not held.
LockFree(collector) == collector.lock = Unlocked

\* record_timer, inside the lock: the durations are whole numbers here, and
\* so is their average.
record_timer(collector, duration) ==
    LET timers == keep_recent(Append(collector.timers, duration),
                              TIMERS_KEPT)
        avg_duration == sum(timers) \div Len(timers)
    IN  [collector EXCEPT
            !.timers = timers,
            !.metrics[TimerMetric] =
                deque_append(@, avg_duration, collector.max_points)]

\* set_gauge, inside the lock
set_gauge(collector, value) ==
    [collector EXCEPT
        !.metrics[GaugeMetric] = deque_append(@, value, collector.max_points)]

\* add_alert: the alert is appended and the list cut; no lock is taken.
add_alert(checker, alert) ==
    [checker EXCEPT
        !.alerts = keep_recent(Append(@, alert), ALERTS_KEPT)]

\* What get_metrics_summary returns of the request counters; the rate is
\* rounded down to a whole number here.
Summary(collector) ==
    LET max(a, b) == IF a >= b THEN a ELSE b
    IN  [total_requests |-> collector.request_count,
         successful_requests |-> collector.success_count,
         failed_requests |-> collector.error_count,
         success_rate |-> (collector.success_count * 100)
                              \div max(collector.request_count, 1)]

\* No summary has been read.
NoSummary ==
    [total_requests |-> 0 - 1, successful_requests |-> 0 - 1,
     failed_requests |-> 0 - 1, success_rate |-> 0 - 1]

\* A thread that calls operations out of ops, at most left times, and
\* reports requests with an outcome out of outcomes: the operation it is in
\* (op) and where (pc), the value it has read for an increment (local), the
\* calls it has begun (calls) and the recordings it has completed
\* (recorded), and the last summary it was given.
CallerThread(ops, outcomes, left) ==
    [job |-> "caller", pc |-> "idle", ops |-> ops, outcomes |-> outcomes,
     left |-> left,
     op |-> "none", success |-> TRUE, local |-> 0, calls |-> 0,
     recorded |-> 0, summary |-> NoSummary]

\* The thread that starts and stops the monitor, at most left times.
Controller(left) == [job |-> "main", pc |-> "idle", left |-> left]

\* A thread created by start_monitoring, about to enter _monitor_loop.
LoopThread == [job |-> "loop", pc |-> "test"]

\* ------------------------------------------------------ resource ceilings
MAX_MEMORY_MB == 512   \* SecureExecutor.MAX_MEMORY_MB
MAX_CPU_TIME == 30     \* SecureExecutor.MAX_CPU_TIME, seconds

\* resource.RLIM_INFINITY: the limit the process starts with.
RLIM_INFINITY == 0 - 1

\* Where the sandbox is constructed: whether the resource module could be
\* imported, and whether setrlimit accepts the memory and the CPU ceiling
\* (it raises ValueError or OSError when the process may not set them).
Platforms ==
    {[HAS_RESOURCE |-> h, RLIMIT_AS |-> a, RLIMIT_CPU |-> c] :
        h \in BOOLEAN, a \in {"ok", "fails"}, c \in {"ok", "fails"}}

\* A platform on which both ceilings are set.
Posix == [HAS_RESOURCE |-> TRUE, RLIMIT_AS |-> "ok", RLIMIT_CPU |-> "ok"]

\* Mutant: the ceilings are set whatever the platform.
setup_resource_limits_anywhere(platform) ==
    [memory |-> MAX_MEMORY_MB, cpu |-> MAX_CPU_TIME,
     warning |-> IF platform.HAS_RESOURCE THEN "none" ELSE "unavailable"]

\* SecureExecutor._setup_resource_limits: the limits of the process after
\* it (memory in MB, CPU time in seconds) and the warning it logs.  The
\* memory ceiling is set first; an exception ends the function.
setup_resource_limits(platform) ==
    IF ~platform.HAS_RESOURCE
    THEN [memory |-> RLIM_INFINITY, cpu |-> RLIM_INFINITY,
          warning |-> "unavailable"]
    ELSE IF platform.RLIMIT_AS = "fails"
    THEN [memory |-> RLIM_INFINITY, cpu |-> RLIM_INFINITY,
          warning |-> "failed"]
    ELSE IF platform.RLIMIT_CPU = "fails"
    THEN [memory |-> MAX_MEMORY_MB, cpu |-> RLIM_INFINITY,
          warning |-> "failed"]
    ELSE [memory |-> MAX_MEMORY_MB, cpu |-> MAX_CPU_TIME, warning |-> "none"]

\* SecureExecutor.__init__ on a platform where both ceilings are set.
Limited == rlimits = setup_resource_limits(Posix)

\* The modules of ALLOWED_MODULES are the objects every namespace refers
\* to: their state is as imported (Unchanged), or as the run that last
\* assigned to an attribute or an option of one of them left it.
Unchanged == 0

\* The programs that assign through a module: "ok_effects" also sets
\* math.pi.
ChangesModule(beh) == beh = "ok_effects"

\* ------------------------------------------------------------------- Init
\* The executor, the agent and the caller after StatBotAgent.__init__.
Constructed ==
    /\ modules = Unchanged
    /\ max_retries \in 0..MaxRetries
    /\ tasks = [t \in {} |-> NoResult]
    /\ queue = <<>>
    /\ next_id = 1
    /\ sys_stdout = Orig
    /\ sys_stderr = Orig
    /\ figures = FALSE
    /\ static_files = {}
    /\ pc = "idle"
    /\ calls = 0
    /\ requires_visualization = FALSE
    /\ attempt = 0
    /\ code = NoProgram
    /\ last_error = {}
    /\ last_error_type = "None"
    /\ cur = None
    /\ entry_stdout = Orig
    /\ entry_stderr = Orig
    /\ ex_result = NoResult
    /\ outcome = NoResult
    /\ execs = 0
    /\ failed_runs = 0
    /\ request = NoRequest
    /\ http_status = NoStatus
    /\ table = OriginalData

\* The state after construction; no function is under check.
Init ==
    /\ Constructed
    /\ Limited
    /\ Started
    /\ Unmonitored
    /\ fn_in = NoInput
    /\ fn_out = NoOutput

\* ------------------------------------------------- process_question (caller)
\* process_question, entry: input validation, schema and intent analysis,
\* and the first evaluation of range(1, max_retries + 1).
P_Call ==
    /\ pc \in {"idle", "done"}
    /\ calls < MaxCalls
    /\ \E df \in DataFrames, question \in Questions, viz \in BOOLEAN :
        /\ request' = [df |-> df, question |-> question]
        /\ http_status' = NoStatus
        /\ calls' = calls + 1
        /\ requires_visualization' = viz
        /\ code' = NoProgram
        /\ last_error' = {}
        /\ last_error_type' = "None"
        /\ cur' = None
        /\ ex_result' = NoResult
        /\ execs' = 0
        /\ failed_runs' = 0
        /\ IF ~ValidInput(df, question)
           THEN /\ outcome' = Raised("ValidationError", {})
                /\ attempt' = 0
                /\ pc' = "done"
           ELSE IF max_retries < 1
           THEN /\ outcome' = ReturnedNone
                /\ attempt' = 0
                /\ pc' = "done"
           ELSE /\ outcome' = NoResult
                /\ attempt' = 1
                /\ pc' = "generate"
    /\ UNCHANGED <<frameVars, sandboxVars, entry_stdout, entry_stderr>>

\* Mutant: every attempt asks the code generator.
UsesGenerator_always(n) == TRUE

\* if attempt == 1: the code generator writes the program, otherwise the
\* fixer does.
UsesGenerator(n) == n = 1

\* The program of this attempt, then the call of execute_code.
P_Generate ==
    /\ pc = "generate"
    /\ IF UsesGenerator(attempt)
       THEN \E c \in Programs : code' = c
       ELSE \E b \in Behaviours :
                code' = fix_code_intelligently(last_error, last_error_type, b)
    /\ entry_stdout' = sys_stdout
    /\ entry_stderr' = sys_stderr
    /\ ex_result' = NoResult
    /\ pc' = "validate_ast"
    /\ UNCHANGED <<frameVars, sandboxVars, calls, requires_visualization, request,
                   http_status,
                   attempt, last_error, last_error_type, cur, outcome, execs,
                   failed_runs>>

\* execute_code: self._validate_code_ast(code).  Its messages say that a
\* construct, an attribute or a function call is blocked.
E_ValidateAst ==
    /\ pc = "validate_ast"
    /\ IF ParserFails(code)
       THEN \* except Exception as e: raise ExecutionError(...)
            /\ pc' = "returned"
            /\ ex_result' = Raised("ExecutionError", {})
       ELSE IF validate_code_ast(code)
       THEN /\ pc' = "validate_patterns"
            /\ UNCHANGED ex_result
       ELSE /\ pc' = "returned"
            /\ ex_result' = Raised("SecurityError", {"blocked"})
    /\ UNCHANGED <<frameVars, sandboxVars, calls, requires_visualization, request,
                   http_status,
                   attempt, code, last_error, last_error_type, cur,
                   entry_stdout, entry_stderr, outcome, execs, failed_runs>>

\* execute_code: self._validate_code_patterns(code).  Its message says
\* "Dangerous pattern detected".
E_ValidatePatterns ==
    /\ pc = "validate_patterns"
    /\ IF validate_code_patterns(code)
       THEN /\ pc' = "submit"
            /\ UNCHANGED ex_result
       ELSE /\ pc' = "returned"
            /\ ex_result' = Raised("SecurityError", {"dangerous pattern"})
    /\ UNCHANGED <<frameVars, sandboxVars, calls, requires_visualization, request,
                   http_status,
                   attempt, code, last_error, last_error_type, cur,
                   entry_stdout, entry_stderr, outcome, execs, failed_runs>>

\* execute_code: safe_globals = self._create_safe_globals(df), then
\* future = self.executor.submit(self._execute_with_monitoring, ...)
E_Submit ==
    /\ pc = "submit"
    /\ tasks' = [t \in DOMAIN tasks \cup {next_id} |->
                    IF t = next_id
                    THEN NewTask(code, calls, attempt, BindDf(table, next_id),
                                 create_safe_builtins(PythonBuiltins))
                    ELSE tasks[t]]
    /\ queue' = Append(queue, next_id)
    /\ cur' = next_id
    /\ next_id' = next_id + 1
    /\ pc' = "wait"
    /\ UNCHANGED <<frameVars, sys_stdout, sys_stderr, figures, static_files,
                   calls, requires_visualization, request, http_status,
                   attempt, code, last_error,
                   last_error_type, entry_stdout, entry_stderr, ex_result,
                   outcome, execs, failed_runs>>

\* execute_code: result = future.result(timeout=self.timeout), the worker
\* has delivered: the result is returned, or the ExecutionError re-raised.
E_Result ==
    /\ pc = "wait"
    /\ tasks[cur].state = "finished"
    /\ ex_result' = tasks[cur].result
    /\ tasks' = Drop(tasks, cur)
    /\ pc' = "returned"
    /\ UNCHANGED <<frameVars, queue, next_id, sys_stdout, sys_stderr,
                   figures, static_files, calls, requires_visualization, request,
                   http_status,
                   attempt, code, last_error, last_error_type, cur,
                   entry_stdout, entry_stderr, outcome, execs, failed_runs>>

\* Mutant: a timeout is reported as a failed result instead of raised.
TimeoutOutcome_as_failure == FailureResult({"timeout"}, "TimeoutError")

\* raise TimeoutError(f"Code execution timed out after ... seconds")
TimeoutOutcome == Raised("TimeoutError", {"timed out"})

\* execute_code: the deadline elapses before the worker has delivered:
\* future.cancel(), then raise TimeoutError.  cancel() takes a pending task
\* out of the run; it has no effect on a running one.
E_Timeout ==
    /\ pc = "wait"
    /\ tasks[cur].state # "finished"
    /\ tasks' = [tasks EXCEPT
                   ![cur].cancel_called = TRUE,
                   ![cur].state = IF @ = "pending" THEN "cancelled" ELSE @]
    /\ ex_result' = TimeoutOutcome
    /\ pc' = "returned"
    /\ UNCHANGED <<frameVars, queue, next_id, sys_stdout, sys_stderr,
                   figures, static_files, calls, requires_visualization, request,
                   http_status,
                   attempt, code, last_error, last_error_type, cur,
                   entry_stdout, entry_stderr, outcome, execs, failed_runs>>

\* Mutant: only security violations abort the loop.
NonRetryable_security_only(exc) == exc = "SecurityError"

\* Mutant: every exception of execute_code is re-raised unchanged.
NonRetryable_all(exc) == TRUE

\* except (SecurityError, TimeoutError): raise      -- the non-retryable kinds
NonRetryable(exc) == exc \in {"SecurityError", "TimeoutError"}

\* Mutant: the loop gives up one attempt early.
FinalAttempt_early(n, retries) == n >= retries - 1

\* if attempt == self.max_retries
FinalAttempt(n, retries) == n = retries

\* process_question: what the loop body does with the outcome of
\* execute_code, up to the return, the raise or the next iteration.
P_Handle ==
    /\ pc = "returned"
    /\ IF ex_result.kind = "result" /\ ex_result.success
       THEN /\ outcome' = SuccessAnswer(ex_result, attempt,
                                        requires_visualization)
            /\ pc' = "done"
            /\ UNCHANGED <<attempt, last_error, last_error_type>>
       ELSE IF ex_result.kind = "result"
       THEN /\ last_error' = ex_result.error
            /\ last_error_type' = ex_result.error_type
            /\ IF FinalAttempt(attempt, max_retries)
               THEN /\ outcome' = FailureAnswer(ex_result.error,
                                                ex_result.error_type, attempt)
                    /\ pc' = "done"
                    /\ UNCHANGED attempt
               ELSE /\ attempt' = attempt + 1
                    /\ pc' = "generate"
                    /\ UNCHANGED outcome
       ELSE IF NonRetryable(ex_result.exc)
       THEN /\ outcome' = Raised(ex_result.exc, ex_result.words)
            /\ pc' = "done"
            /\ UNCHANGED <<attempt, last_error, last_error_type>>
       ELSE \* except Exception: an ExecutionError of execute_code
            /\ last_error' = ex_result.words
            /\ last_error_type' = ex_result.exc
            /\ IF FinalAttempt(attempt, max_retries)
               THEN \* raise ExecutionError, which the outer handler turns
                    \* into AgentError("Critical processing error: ...")
                    /\ outcome' = Raised("AgentError", ex_result.words)
                    /\ pc' = "done"
                    /\ UNCHANGED attempt
               ELSE /\ attempt' = attempt + 1
                    /\ pc' = "generate"
                    /\ UNCHANGED outcome
    /\ failed_runs' = IF ex_result.kind = "result" /\ ~ex_result.success
                       THEN failed_runs + 1 ELSE failed_runs
    /\ UNCHANGED <<frameVars, sandboxVars, calls, requires_visualization, request,
                   http_status,
                   code, cur, entry_stdout, entry_stderr, ex_result, execs>>

\* ------------------------------------------------ main.py: ask_question
\* The exception classes of agent.py: AgentError is the base of the others.
IsInstance(exc, cls) ==
    \/ exc = cls
    \/ /\ cls = "AgentError"
       /\ exc \in {"SecurityError", "ExecutionError", "ValidationError",
                   "TimeoutError"}

\* The except clauses around the call of process_question, in their order.
\* main.py imports AgentError, SecurityError and ExecutionError from agent;
\* the first clause names asyncio.TimeoutError, the class wait_for raises.
Handlers ==
    << [cls |-> "asyncio.TimeoutError", status |-> 408],
       [cls |-> "SecurityError",        status |-> 403],
       [cls |-> "ExecutionError",       status |-> 422],
       [cls |-> "AgentError",           status |-> 500] >>

\* The status of the first clause that matches; the outer
\* "except Exception" answers 500 for what none of them matches.
RECURSIVE HandlerStatus(_, _)
HandlerStatus(exc, i) ==
    IF i > Len(Handlers) THEN 500
    ELSE IF IsInstance(exc, Handlers[i].cls) THEN Handlers[i].status
    ELSE HandlerStatus(exc, i + 1)

\* The status of the response for an outcome of process_question.  A
\* returned None fails at result.get, inside the outer try.
StatusOf(o) ==
    IF o.kind = "answer" THEN 200
    ELSE IF o.kind = "raise" THEN HandlerStatus(o.exc, 1)
    ELSE HandlerStatus("AttributeError", 1)

\* ask_question, from the return of process_question to the response.
H_Respond ==
    /\ pc = "done"
    /\ http_status = NoStatus
    /\ http_status' = StatusOf(outcome)
    /\ UNCHANGED <<frameVars, sandboxVars, pc, calls, requires_visualization,
                   request, attempt, code, last_error, last_error_type, cur,
                   entry_stdout, entry_stderr, ex_result, outcome, execs,
                   failed_runs>>

\* ------------------------------------------- the executor's worker thread(s)
\* Mutant: the pool starts a thread for every work item.
CanStart_unbounded == TRUE

\* A worker thread is free to take the next work item.
CanStart == Cardinality(Running) < max_workers

\* The worker takes the head of the queue; a cancelled future is skipped.
W_Take ==
    /\ queue # <<>>
    /\ CanStart
    /\ LET t == Head(queue) IN
        /\ queue' = Tail(queue)
        /\ tasks' = IF tasks[t].state = "cancelled"
                    THEN Drop(tasks, t)
                    ELSE [tasks EXCEPT ![t].state = "running",
                                       ![t].wpc = "start"]
    /\ UNCHANGED <<frameVars, next_id, sys_stdout, sys_stderr, figures,
                   static_files, callerVars, execs,
                   failed_runs>>

\* _execute_with_monitoring, up to the call of exec: save the streams and
\* install the capture buffers.
W_Redirect(t) ==
    /\ tasks[t].state = "running"
    /\ tasks[t].wpc = "start"
    /\ tasks' = [tasks EXCEPT ![t].old_stdout = sys_stdout,
                              ![t].old_stderr = sys_stderr,
                              ![t].wpc = "exec"]
    /\ sys_stdout' = t
    /\ sys_stderr' = t
    /\ execs' = IF tasks[t].call = calls THEN execs + 1 ELSE execs
    /\ UNCHANGED <<frameVars, queue, next_id, figures, static_files,
                   callerVars, failed_runs>>

\* What print writes goes to the buffer sys.stdout refers to at that time.
Write(f, stream, text) ==
    IF stream \in DOMAIN f
    THEN [f EXCEPT ![stream].captured_output = @ \o text]
    ELSE f

\* The same for sys.stderr.
WriteErr(f, stream, text) ==
    IF stream \in DOMAIN f
    THEN [f EXCEPT ![stream].captured_errors = @ \o text]
    ELSE f

\* exec(code, safe_globals, safe_locals) runs to its end (a program that
\* hangs never gets here).  A program that completes has printed.
W_Exec(t) ==
    /\ tasks[t].state = "running"
    /\ tasks[t].wpc = "exec"
    /\ tasks[t].code.beh # "hang"
    /\ LET beh == tasks[t].code.beh
           df == tasks[t].df
           printed == IF beh \in Completing
                      THEN Write(tasks, sys_stdout, Printed(t)) ELSE tasks
           written == IF beh = "ok_effects"
                      THEN WriteErr(printed, sys_stderr, Warned(t))
                      ELSE printed
           stored == IF MutatesDf(beh) /\ df.owner # Caller
                     THEN [written EXCEPT ![t].df.data = @ + 1] ELSE written
       IN  /\ tasks' = [stored EXCEPT ![t].wpc = "post"]
           /\ table' = IF MutatesDf(beh) /\ df.owner = Caller
                        THEN table + 1 ELSE table
           /\ figures' = (figures \/ OpensFigure(beh))
           /\ modules' = IF ChangesModule(beh) THEN t ELSE modules
    /\ UNCHANGED <<max_retries, fn_in, fn_out, serverVars, rlimits,
                   monitoringVars, queue, next_id, sys_stdout, sys_stderr,
                   static_files, callerVars, execs, failed_runs>>

\* Mutant: an exception of the program leaves the frame as ExecutionError.
MonitoringResult_propagate(t, chart_url) ==
    LET beh == tasks[t].code.beh IN
    IF beh \in Completing
    THEN SuccessResult(reported_output(tasks[t].captured_output),
                       Strip(tasks[t].captured_errors), chart_url)
    ELSE Raised("ExecutionError", ErrorWordsOf(beh))

\* What _execute_with_monitoring returns or raises for a finished exec.
MonitoringResult(t, chart_url) ==
    LET beh == tasks[t].code.beh IN
    IF beh \in Completing
    THEN SuccessResult(reported_output(tasks[t].captured_output),
                       Strip(tasks[t].captured_errors), chart_url)
    ELSE IF beh = "memory" THEN Raised("ExecutionError", {"memory"})
    ELSE IF beh = "interrupt" THEN Raised("ExecutionError", {"interrupted"})
    ELSE FailureResult(ErrorWordsOf(beh), ErrorTypeOf(beh))

\* Mutant: the chart block also runs for a program that raised.
ChartSaved_after_raise(t, saved) == figures /\ saved

\* The chart block: reached when exec returned, entered when
\* plt.get_fignums() is not empty; plt.savefig succeeds or raises.
ChartSaved(t, saved) ==
    /\ tasks[t].code.beh \in Completing
    /\ figures
    /\ saved

\* Mutant: the finally clause leaves the figures open.
close_all_skipped(open) == open

\* plt.close('all'): whether a figure is open afterwards.
close_all(open) == FALSE

\* _execute_with_monitoring after exec: the chart is saved when a figure is
\* open (the save may fail), the finally clause restores the streams and
\* closes the figures, and the future gets the result.  A future nobody
\* waits for any more is dropped.
W_Finish(t) ==
    /\ tasks[t].state = "running"
    /\ tasks[t].wpc = "post"
    /\ \E saved \in BOOLEAN :
        LET charted == ChartSaved(t, saved)
            chart_filename == Cardinality(static_files) + 1
            res == MonitoringResult(t, IF charted THEN chart_filename
                                       ELSE None)
        IN  /\ (saved => charted)
            /\ static_files' =
                   IF charted
                   THEN static_files \cup {[name |-> chart_filename, by |-> t]}
                   ELSE static_files
            /\ tasks' = IF pc = "wait" /\ cur = t
                        THEN [tasks EXCEPT ![t].state = "finished",
                                           ![t].wpc = "returned",
                                           ![t].result = res]
                        ELSE Drop(tasks, t)
    /\ sys_stdout' = tasks[t].old_stdout
    /\ sys_stderr' = tasks[t].old_stderr
    /\ figures' = close_all(figures)
    /\ UNCHANGED <<frameVars, queue, next_id, callerVars, execs,
                   failed_runs>>

\* ---------------------------------------------------------- specifications
Next ==
    \/ P_Call
    \/ P_Generate
    \/ E_ValidateAst
    \/ E_ValidatePatterns
    \/ E_Submit
    \/ E_Result
    \/ E_Timeout
    \/ P_Handle
    \/ H_Respond
    \/ W_Take
    \/ \E t \in DOMAIN tasks : W_Redirect(t)
    \/ \E t \in DOMAIN tasks : W_Exec(t)
    \/ \E t \in DOMAIN tasks : W_Finish(t)

Spec == Init /\ [][Next]_vars

LiveSpec == Spec /\ WF_vars(E_Result \/ E_Timeout)

\* ----------------------------------------- the validation, as a function
\* execute_code's validation applied to one source text.
V_Init ==
    /\ Constructed
    /\ fn_in \in {[fn |-> "validate", src |-> s, text |-> <<>>] :
                     s \in Sources}
    /\ fn_out = NoOutput
    /\ Started
    /\ Limited
    /\ Unmonitored

F_Validate ==
    /\ fn_in.fn = "validate"
    /\ fn_out = NoOutput
    /\ fn_out' = [outcome |-> ValidationOutcome(ProgramOf(fn_in.src)),
                  output |-> <<>>]
    /\ UNCHANGED <<fn_in, programVars, serverVars, monitoringVars>>

ValidatorSpec == V_Init /\ [][F_Validate]_vars

\* -------------------------------------- the reported output, as a function
\* The lengths of the runs of characters in the captured texts considered.
RunLengths == {1, 9999, 10000, 10001}

\* The texts of at most n runs, written by run 1.
RECURSIVE Texts(_)
Texts(n) ==
    IF n = 0 THEN {<<>>}
    ELSE Texts(n - 1)
         \cup {Append(s, Run(ch, len, 1)) :
                 s \in Texts(n - 1), ch \in {"x", "ws"}, len \in RunLengths}

\* _execute_with_monitoring, lines 291 to 318, applied to one captured text.
O_Init ==
    /\ Constructed
    /\ fn_in \in {[fn |-> "report", src |-> NoSource, text |-> t] :
                     t \in Texts(MaxRuns)}
    /\ fn_out = NoOutput
    /\ Started
    /\ Limited
    /\ Unmonitored

F_Report ==
    /\ fn_in.fn = "report"
    /\ fn_out = NoOutput
    /\ fn_out' = [outcome |-> "reported",
                  output |-> reported_output(fn_in.text)]
    /\ UNCHANGED <<fn_in, programVars, serverVars, monitoringVars>>

OutputSpec == O_Init /\ [][F_Report]_vars

\* ---------------------------------------------- main.py: the request tasks
\* A request arrives: POST /upload_csv or POST /ask_question, and the idle
\* loop starts the task that serves it.  The session
\* id of an upload is the one generate_session_id will make for it (unique);
\* a question names no session, or any id: one an upload was given, or one
\* that no upload was given.
R_Arrive ==
    /\ running = Idle
    /\ Len(reqs) < MaxRequests
    /\ \E kind \in {"upload", "ask"}, ip \in ClientIps,
          named \in 0..Len(reqs) :
          LET id == Len(reqs) + 1
              session_id == IF kind = "upload" THEN id ELSE named
          IN  /\ reqs' = Append(reqs, NewRequest(kind, ip, session_id))
              /\ running' = id
    /\ UNCHANGED <<lock, sessions, request_counts, clock, current_dataframe>>
    /\ UNCHANGED <<programVars, fn_in, fn_out, monitoringVars>>

\* Time passes while the loop waits for the next event (a reading is half
\* an hour; no task runs that long between two awaits).
T_Tick ==
    /\ running = Idle
    /\ clock < MaxTime
    /\ clock' = clock + 1
    /\ UNCHANGED <<reqs, lock, sessions, request_counts, running,
                   current_dataframe>>
    /\ UNCHANGED <<programVars, fn_in, fn_out, monitoringVars>>

Top(r) == reqs[r].stack[Len(reqs[r].stack)]
Pop(stack) == SubSeq(stack, 1, Len(stack) - 1)

\* The caller's frame after the call it awaited has returned.
Resume(stack) ==
    IF stack = <<>> THEN stack
    ELSE [stack EXCEPT ![Len(stack)].at = "resumed"]

\* A task keeps the event loop until it has to wait: for the lock, which
\* another task has to release, for the uploaded file to be read, or for
\* nothing more, when its response is sent.
Waits(req, locked) ==
    \/ req.at \in {"read", "done"} /\ req.stack = <<>>
    \/ /\ req.stack # <<>>
       /\ req.stack[Len(req.stack)].at = "acquire"
       /\ locked # Unlocked

\* The loop runs task r when it runs no other task,
Scheduled(r) ==
    /\ r \in DOMAIN reqs
    /\ running \in {Idle, r}

\* and goes on with it unless it waits now.
Continue(r) ==
    running' = IF Waits(reqs'[r], lock') THEN Idle ELSE r

\* raise HTTPException(status_code=..., detail=...): the response is sent.
Respond(req, status, detail) ==
    [req EXCEPT !.status = status, !.detail = detail, !.at = "done"]

\* Mutant: a question is passed on whether or not its session has a table.
HasTable_unchecked(session) == TRUE

\* df = session.get('dataframe'); if df is None: raise ...
HasTable(session) == session.dataframe # "None"

\* "async with self._lock", entry: the lock is taken when it is not locked;
\* a task that finds it locked waits.
L_Acquire(r) ==
    /\ Scheduled(r)
    /\ reqs[r].stack # <<>>
    /\ Top(r).at = "acquire"
    /\ lock = Unlocked
    /\ lock' = r
    /\ reqs' = [reqs EXCEPT ![r].stack[Len(reqs[r].stack)].at = "locked"]
    /\ Continue(r)
    /\ UNCHANGED <<sessions, request_counts, clock, current_dataframe>>
    /\ UNCHANGED <<programVars, fn_in, fn_out, monitoringVars>>

\* The body of a coroutine of ApplicationState inside the lock, up to its
\* next await or to its return, which releases the lock.
L_Body(r) ==
    /\ Scheduled(r)
    /\ reqs[r].stack # <<>>
    /\ Top(r).at \in {"locked", "resumed"}
    /\ LET req == reqs[r]
           fn == Top(r).fn
       IN  IF fn = "check_rate_limit"
           THEN LET out == check_rate_limit(request_counts, req.ip, clock)
                IN  /\ request_counts' = out.counts
                    /\ lock' = Unlocked
                    /\ reqs' = [reqs EXCEPT
                                  ![r].stack = Pop(req.stack),
                                  ![r].allowed = out.ret,
                                  ![r].admitted_at =
                                      IF out.ret THEN clock ELSE NotAdmitted]
                    /\ UNCHANGED sessions
           ELSE IF fn = "get_session"
           THEN /\ sessions' = get_session(sessions, req.session_id, clock)
                /\ lock' = Unlocked
                /\ reqs' = [reqs EXCEPT ![r].stack = Resume(Pop(req.stack))]
                /\ UNCHANGED request_counts
           ELSE IF fn = "cleanup_old_sessions"
           THEN /\ sessions' = cleanup_old_sessions(sessions, clock)
                /\ lock' = Unlocked
                /\ reqs' = [reqs EXCEPT ![r].stack = Pop(req.stack)]
                /\ UNCHANGED request_counts
           ELSE IF Top(r).at = "locked"
           THEN \* update_session: session = await self.get_session(...)
                /\ reqs' = [reqs EXCEPT
                              ![r].stack = Append(req.stack,
                                                  Frame("get_session"))]
                /\ UNCHANGED <<lock, sessions, request_counts>>
           ELSE \* update_session: the two assignments, then the release
                /\ sessions' = update_session(sessions, req.session_id,
                                              req.updates, clock)
                /\ lock' = Unlocked
                /\ reqs' = [reqs EXCEPT ![r].stack = Pop(req.stack)]
                /\ UNCHANGED request_counts
    /\ Continue(r)
    /\ UNCHANGED <<clock, current_dataframe>>
    /\ UNCHANGED <<programVars, fn_in, fn_out, monitoringVars>>

\* The handler of a request (upload_csv or the session-based ask_question),
\* from where it is to its next call of app_state or to its response.
H_Step(r) ==
    /\ Scheduled(r)
    /\ reqs[r].kind \in {"upload", "ask"}
    /\ reqs[r].stack = <<>>
    /\ reqs[r].at # "done"
    /\ LET req == reqs[r]
           Await(fn, next) ==
               [req EXCEPT !.stack = <<Frame(fn)>>, !.at = next]
       IN  CASE req.at = "start" ->
                  \* await rate_limit_check(request)
                  reqs' = [reqs EXCEPT
                             ![r] = Await("check_rate_limit", "admission")]
             [] req.at = "admission" /\ ~req.allowed ->
                  reqs' = [reqs EXCEPT
                             ![r] = Respond(req, 429, "Rate limit exceeded")]
             [] req.at = "admission" /\ req.allowed /\ req.kind = "upload" ->
                  \* content = await file.read()
                  reqs' = [reqs EXCEPT ![r].at = "read"]
             [] req.at = "read" ->
                  \* the file is validated and parsed, then stored
                  \E valid \in BOOLEAN :
                      reqs' = [reqs EXCEPT ![r] =
                          IF valid
                          THEN [Await("update_session", "stored") EXCEPT
                                   !.updates = Updates("rows", KeepCount)]
                          ELSE Respond(req, 400, "invalid file")]
             [] req.at = "admission" /\ req.allowed /\ req.kind = "ask" ->
                  reqs' = [reqs EXCEPT ![r] =
                      IF req.session_id = NoSessionId
                      THEN Respond(req, 400, "Session ID required")
                      ELSE Await("get_session", "session")]
             [] req.at = "session" ->
                  LET session == sessions[req.session_id]
                  IN  reqs' = [reqs EXCEPT ![r] =
                          IF ~HasTable(session)
                          THEN Respond(req, 400, "No CSV data found")
                          ELSE [Await("update_session", "stored") EXCEPT
                                   !.updates =
                                       Updates(KeepText,
                                               session.question_count + 1)]]
             [] req.at = "stored" /\ req.kind = "upload" ->
                  reqs' = [reqs EXCEPT
                             ![r] = Respond(req, 200,
                                            "CSV uploaded successfully")]
             [] req.at = "stored" /\ req.kind = "ask" ->
                  \* app_state.agent.process_question(df, question)
                  \E status \in AgentStatuses :
                      reqs' = [reqs EXCEPT
                                 ![r] = [Respond(req, status, "")
                                            EXCEPT !.asked = TRUE]]
    /\ UNCHANGED <<lock, sessions, request_counts, clock, current_dataframe>>
    /\ Continue(r)
    /\ UNCHANGED <<programVars, fn_in, fn_out, monitoringVars>>

ServerNext ==
    \/ R_Arrive
    \/ T_Tick
    \/ \E r \in 1..MaxRequests : L_Acquire(r)
    \/ \E r \in 1..MaxRequests : L_Body(r)
    \/ \E r \in 1..MaxRequests : H_Step(r)

\* The server alone: the agent is as constructed and is not called.
S_Init == Init /\ max_retries = MaxRetries

ServerSpec == S_Init /\ [][ServerNext]_vars

\* The event loop runs every task that can run; the lock wakes its waiters
\* in turn, so a task waiting for a lock that is released again and again
\* gets it.
ServerLive ==
    /\ ServerSpec
    /\ \A r \in 1..MaxRequests :
          /\ SF_vars(L_Acquire(r))
          /\ WF_vars(L_Body(r))
          /\ WF_vars(H_Step(r))

\* --------------------- main.py: the first handlers and the cleanup task
\* main.py registers two handlers for POST /upload_csv and two for
\* POST /ask_question.  The first ones (lines 438 and 474) keep the table in
\* the global current_dataframe and use neither the rate limit nor the
\* sessions; periodic_cleanup is a task of the same loop, started by
\* lifespan.
MaxTasks == MaxRequests + 1    \* the requests and the cleanup task

\* get_client_ip is not called for this task.
NoClient == ""

\* The statuses the first ask_question answers with once process_question
\* was called: the result, or 500 for any exception.
LegacyStatuses == {200, 500}

\* POST /upload_csv or POST /ask_question, served by the first handler.
R_Legacy ==
    /\ running = Idle
    /\ Len(reqs) < MaxRequests
    /\ \E kind \in {"legacy_upload", "legacy_ask"} :
          /\ reqs' = Append(reqs, NewRequest(kind, NoClient, NoSessionId))
          /\ running' = Len(reqs) + 1
    /\ UNCHANGED <<lock, sessions, request_counts, clock, current_dataframe>>
    /\ UNCHANGED <<programVars, fn_in, fn_out, monitoringVars>>

\* periodic_cleanup: asyncio.sleep(CLEANUP_INTERVAL) is over (one turn of
\* its loop is followed).
R_Cleanup ==
    /\ running = Idle
    /\ Len(reqs) < MaxTasks
    /\ \A r \in DOMAIN reqs : reqs[r].kind # "cleanup"
    /\ reqs' = Append(reqs, NewRequest("cleanup", NoClient, NoSessionId))
    /\ running' = Len(reqs) + 1
    /\ UNCHANGED <<lock, sessions, request_counts, clock, current_dataframe>>
    /\ UNCHANGED <<programVars, fn_in, fn_out, monitoringVars>>

\* A day passes while the loop waits for the next event.
T_Day ==
    /\ running = Idle
    /\ clock <= MaxTime
    /\ clock' = clock + DAY
    /\ UNCHANGED <<reqs, lock, sessions, request_counts, running,
                   current_dataframe>>
    /\ UNCHANGED <<programVars, fn_in, fn_out, monitoringVars>>

\* The first upload_csv, the first ask_question or periodic_cleanup, from
\* where it is to its next await or to its end.  process_question is a
\* coroutine without an await: from its call to the worker's result
\* (future.result(timeout) in execute_code) the task does not give up the
\* loop, so "worker" is not a place where it waits.
G_Step(r) ==
    /\ Scheduled(r)
    /\ reqs[r].kind \in {"legacy_upload", "legacy_ask", "cleanup"}
    /\ reqs[r].stack = <<>>
    /\ reqs[r].at # "done"
    /\ LET req == reqs[r]
       IN  CASE req.kind = "legacy_upload" /\ req.at = "start" ->
                  \* the file name is checked; content = await file.read()
                  /\ \E csv \in BOOLEAN :
                        reqs' = [reqs EXCEPT ![r] =
                            IF csv THEN [req EXCEPT !.at = "read"]
                            ELSE Respond(req, 400, "File must be a CSV")]
                  /\ UNCHANGED current_dataframe
             [] req.kind = "legacy_upload" /\ req.at = "read" ->
                  \* current_dataframe = pd.read_csv(filepath)
                  \E parsed \in BOOLEAN :
                      IF parsed
                      THEN /\ current_dataframe' = "rows"
                           /\ reqs' = [reqs EXCEPT ![r] =
                                  Respond(req, 200,
                                          "CSV uploaded successfully")]
                      ELSE /\ UNCHANGED current_dataframe
                           /\ reqs' = [reqs EXCEPT ![r] =
                                  Respond(req, 500, "Error processing CSV")]
             [] req.kind = "legacy_ask" /\ req.at = "start" ->
                  /\ reqs' = [reqs EXCEPT ![r] =
                         IF current_dataframe = "None"
                         THEN Respond(req, 400, "No CSV file uploaded")
                         ELSE [req EXCEPT !.at = "worker"]]
                  /\ UNCHANGED current_dataframe
             [] req.kind = "legacy_ask" /\ req.at = "worker" ->
                  \* the worker's result or the timeout, and what
                  \* process_question makes of it
                  /\ \E status \in LegacyStatuses :
                        reqs' = [reqs EXCEPT
                                   ![r] = [Respond(req, status, "")
                                              EXCEPT !.asked = TRUE]]
                  /\ UNCHANGED current_dataframe
             [] req.kind = "cleanup" /\ req.at = "start" ->
                  \* await app_state.cleanup_old_sessions()
                  /\ reqs' = [reqs EXCEPT ![r] =
                         [req EXCEPT
                            !.stack = <<Frame("cleanup_old_sessions")>>,
                            !.at = "cleaned"]]
                  /\ UNCHANGED current_dataframe
             [] req.kind = "cleanup" /\ req.at = "cleaned" ->
                  \* cleanup_old_files(), and the next sleep
                  /\ reqs' = [reqs EXCEPT ![r].at = "done"]
                  /\ UNCHANGED current_dataframe
    /\ UNCHANGED <<lock, sessions, request_counts, clock>>
    /\ Continue(r)
    /\ UNCHANGED <<programVars, fn_in, fn_out, monitoringVars>>

AppNext ==
    \/ R_Arrive
    \/ R_Legacy
    \/ R_Cleanup
    \/ T_Tick
    \/ T_Day
    \/ \E r \in 1..MaxTasks : L_Acquire(r)
    \/ \E r \in 1..MaxTasks : L_Body(r)
    \/ \E r \in 1..MaxTasks : H_Step(r)
    \/ \E r \in 1..MaxTasks : G_Step(r)

\* The server with every handler and the cleanup task.
AppSpec == S_Init /\ [][AppNext]_vars

\* ------------------------------------------ monitoring.py: the threads
MaxThreads == 2        \* threads that call the MetricsCollector
MaxRecords == 2        \* calls each of them makes
MaxExtra == 2          \* calls made beyond what a store holds
MaxMonitorCalls == 3   \* calls of start_monitoring and stop_monitoring

\* The readings of psutil.cpu_percent considered.
Readings == {0, 100}

\* What the store an operation appends to holds at most.
Capacity(op) ==
    CASE op = "record_timer" -> TIMERS_KEPT
      [] op = "add_alert" -> ALERTS_KEPT
      [] op = "record_request" -> REQUEST_TIMES_KEPT
      [] op = "set_gauge" -> MaxPoints

\* The agent and the server are as constructed and are not used.
Unused ==
    /\ Constructed
    /\ max_retries = MaxRetries
    /\ Limited
    /\ Started
    /\ fn_in = NoInput
    /\ fn_out = NoOutput

\* A thread calls an operation of the module-level objects.  The duration,
\* value or alert it passes is the number of the call, so that the entries
\* of a store tell their order.  add_alert takes no lock.
M_Call(t) ==
    /\ t \in DOMAIN threads
    /\ threads[t].job = "caller"
    /\ threads[t].pc = "idle"
    /\ threads[t].left > 0
    /\ \E op \in threads[t].ops, success \in threads[t].outcomes :
          /\ op # "record_request" => success
          /\ threads' = [threads EXCEPT
                           ![t].op = op,
                           ![t].success = success,
                           ![t].pc = IF op = "add_alert" THEN "body"
                                     ELSE "acquire",
                           ![t].left = @ - 1,
                           ![t].calls = @ + 1]
    /\ UNCHANGED <<metrics_collector, system_monitor, health_checker>>
    /\ UNCHANGED <<programVars, serverVars, fn_in, fn_out>>

\* "with self._lock", entry
M_Acquire(t) ==
    /\ t \in DOMAIN threads
    /\ threads[t].job = "caller"
    /\ threads[t].pc = "acquire"
    /\ LockFree(metrics_collector)
    /\ metrics_collector' = [metrics_collector EXCEPT !.lock = t]
    /\ threads' = [threads EXCEPT ![t].pc = "body"]
    /\ UNCHANGED <<system_monitor, health_checker>>
    /\ UNCHANGED <<programVars, serverVars, fn_in, fn_out>>

\* The body of the operation.  "self.x += 1" reads x and then writes it:
\* record_request takes four steps, the last of which leaves the lock; the
\* other operations take one.
M_Body(t) ==
    /\ t \in DOMAIN threads
    /\ threads[t].job = "caller"
    /\ threads[t].pc \notin {"idle", "acquire"}
    /\ LET th == threads[t]
           mc == metrics_collector
           Released(collector) == [collector EXCEPT !.lock = Unlocked]
           Returned(recorded) ==
               [threads EXCEPT ![t].pc = "idle",
                               ![t].op = "none",
                               ![t].success = TRUE,
                               ![t].local = 0,
                               ![t].recorded = @ + recorded]
       IN  CASE th.op = "record_request" /\ th.pc = "body" ->
                  \* self.request_count += 1, the read
                  /\ threads' = [threads EXCEPT
                                   ![t].local = mc.request_count,
                                   ![t].pc = "count"]
                  /\ UNCHANGED <<metrics_collector, health_checker>>
             [] th.op = "record_request" /\ th.pc = "count" ->
                  \* the write, and self.request_times.append(duration)
                  /\ metrics_collector' =
                         [mc EXCEPT
                            !.request_count = th.local + 1,
                            !.request_times =
                                deque_append(@, th.calls,
                                             REQUEST_TIMES_KEPT)]
                  /\ threads' = [threads EXCEPT ![t].pc = "outcome"]
                  /\ UNCHANGED health_checker
             [] th.op = "record_request" /\ th.pc = "outcome" ->
                  \* self.success_count += 1 or self.error_count += 1
                  /\ threads' = [threads EXCEPT
                                   ![t].local = IF th.success
                                                THEN mc.success_count
                                                ELSE mc.error_count,
                                   ![t].pc = "store"]
                  /\ UNCHANGED <<metrics_collector, health_checker>>
             [] th.op = "record_request" /\ th.pc = "store" ->
                  /\ metrics_collector' =
                         Released(IF th.success
                                  THEN [mc EXCEPT
                                          !.success_count = th.local + 1]
                                  ELSE [mc EXCEPT
                                          !.error_count = th.local + 1])
                  /\ threads' = Returned(1)
                  /\ UNCHANGED health_checker
             [] th.op = "get_metrics_summary" ->
                  /\ metrics_collector' = Released(mc)
                  /\ threads' = [Returned(0) EXCEPT
                                   ![t].summary = Summary(mc)]
                  /\ UNCHANGED health_checker
             [] th.op = "record_timer" ->
                  /\ metrics_collector' = Released(record_timer(mc, th.calls))
                  /\ threads' = Returned(1)
                  /\ UNCHANGED health_checker
             [] th.op = "set_gauge" ->
                  /\ metrics_collector' = Released(set_gauge(mc, th.calls))
                  /\ threads' = Returned(1)
                  /\ UNCHANGED health_checker
             [] th.op = "add_alert" ->
                  /\ health_checker' = add_alert(health_checker, th.calls)
                  /\ threads' = Returned(1)
                  /\ UNCHANGED metrics_collector
    /\ UNCHANGED system_monitor
    /\ UNCHANGED <<programVars, serverVars, fn_in, fn_out>>

MetricsNext ==
    \/ \E t \in 1..MaxThreads : M_Call(t)
    \/ \E t \in 1..MaxThreads : M_Acquire(t)
    \/ \E t \in 1..MaxThreads : M_Body(t)

\* Threads that record requests and read summaries at the same time.
M_Init ==
    /\ Unused
    /\ metrics_collector = NewCollector(MaxPoints)
    /\ system_monitor = NewMonitor
    /\ health_checker = NewChecker
    /\ threads = [t \in 1..MaxThreads |->
                     CallerThread({"record_request", "get_metrics_summary"},
                                  BOOLEAN, MaxRecords)]

MetricsSpec == M_Init /\ [][MetricsNext]_vars

\* One thread that calls one operation again and again, more often than
\* the store it appends to has room; its requests all succeed.
St_Init ==
    /\ Unused
    /\ metrics_collector = NewCollector(MaxPoints)
    /\ system_monitor = NewMonitor
    /\ health_checker = NewChecker
    /\ \E op \in {"record_timer", "add_alert", "record_request",
                  "set_gauge"} :
          threads = <<CallerThread({op}, {TRUE}, Capacity(op) + MaxExtra)>>

StoreSpec == St_Init /\ [][MetricsNext]_vars

\* start_monitoring: nothing when monitoring, otherwise the flag is set and
\* a new thread is started.
S_Start(t) ==
    /\ t \in DOMAIN threads
    /\ threads[t].job = "main"
    /\ threads[t].pc = "idle"
    /\ threads[t].left > 0
    /\ IF system_monitor.monitoring
       THEN /\ threads' = [threads EXCEPT ![t].left = @ - 1]
            /\ UNCHANGED system_monitor
       ELSE /\ system_monitor' = [monitoring |-> TRUE,
                                  monitor_thread |-> Len(threads) + 1]
            /\ threads' = Append([threads EXCEPT ![t].left = @ - 1],
                                 LoopThread)
    /\ UNCHANGED <<metrics_collector, health_checker>>
    /\ UNCHANGED <<programVars, serverVars, fn_in, fn_out>>

\* stop_monitoring: the flag is cleared, then the thread is joined.
S_Stop(t) ==
    /\ t \in DOMAIN threads
    /\ threads[t].job = "main"
    /\ threads[t].pc = "idle"
    /\ threads[t].left > 0
    /\ system_monitor' = [system_monitor EXCEPT !.monitoring = FALSE]
    /\ threads' = [threads EXCEPT
                     ![t].left = @ - 1,
                     ![t].pc = IF system_monitor.monitor_thread # None
                               THEN "join" ELSE "idle"]
    /\ UNCHANGED <<metrics_collector, health_checker>>
    /\ UNCHANGED <<programVars, serverVars, fn_in, fn_out>>

\* self.monitor_thread.join(timeout=5) returns: the thread has ended, or
\* five seconds have passed while it is in time.sleep(interval).
S_Join(t) ==
    /\ t \in DOMAIN threads
    /\ threads[t].job = "main"
    /\ threads[t].pc = "join"
    /\ threads[system_monitor.monitor_thread].pc \in {"exited", "sleep"}
    /\ threads' = [threads EXCEPT ![t].pc = "idle"]
    /\ UNCHANGED <<metrics_collector, system_monitor, health_checker>>
    /\ UNCHANGED <<programVars, serverVars, fn_in, fn_out>>

\* _monitor_loop: while self.monitoring
T_Test(l) ==
    /\ l \in DOMAIN threads
    /\ threads[l].job = "loop"
    /\ threads[l].pc = "test"
    /\ threads' = [threads EXCEPT
                     ![l].pc = IF system_monitor.monitoring THEN "collect"
                               ELSE "exited"]
    /\ UNCHANGED <<metrics_collector, system_monitor, health_checker>>
    /\ UNCHANGED <<programVars, serverVars, fn_in, fn_out>>

\* self._collect_system_metrics(): the gauges are set, each inside the
\* collector's lock.
T_Collect(l) ==
    /\ l \in DOMAIN threads
    /\ threads[l].job = "loop"
    /\ threads[l].pc = "collect"
    /\ LockFree(metrics_collector)
    /\ \E cpu_percent \in Readings :
          metrics_collector' = set_gauge(metrics_collector, cpu_percent)
    /\ threads' = [threads EXCEPT ![l].pc = "sleep"]
    /\ UNCHANGED <<system_monitor, health_checker>>
    /\ UNCHANGED <<programVars, serverVars, fn_in, fn_out>>

\* time.sleep(interval) is over.
T_Wake(l) ==
    /\ l \in DOMAIN threads
    /\ threads[l].job = "loop"
    /\ threads[l].pc = "sleep"
    /\ threads' = [threads EXCEPT ![l].pc = "test"]
    /\ UNCHANGED <<metrics_collector, system_monitor, health_checker>>
    /\ UNCHANGED <<programVars, serverVars, fn_in, fn_out>>

\* The main thread, and the loop threads it has started.
MaxLoops == MaxMonitorCalls + 1

MonitorNext ==
    \/ S_Start(1)
    \/ S_Stop(1)
    \/ S_Join(1)
    \/ \E l \in 2..MaxLoops : T_Test(l)
    \/ \E l \in 2..MaxLoops : T_Collect(l)
    \/ \E l \in 2..MaxLoops : T_Wake(l)

Mo_Init ==
    /\ Unused
    /\ metrics_collector = NewCollector(MaxPoints)
    /\ system_monitor = NewMonitor
    /\ health_checker = NewChecker
    /\ threads = <<Controller(MaxMonitorCalls)>>

MonitorSpec == Mo_Init /\ [][MonitorNext]_vars

\* ----------------------------------- code generation for a specific query
MaxRows == 4           \* rows of the tables considered

\* str.lower() on the words and values that occur here.
Lower(w) ==
    CASE w = "Total" -> "total"
      [] w = "Sales" -> "sales"
      [] w = "IN" -> "in"
      [] w = "North" -> "north"
      [] w = "NORTH" -> "north"
      [] w = "South" -> "south"
      [] OTHER -> w

\* A question is a sequence of words separated by blanks.
question_lower(question) == [i \in DOMAIN question |-> Lower(question[i])]

\* The words that consist of \w characters only.
PlainWord(w) == w \notin {"north?", "north-east"}

\* The longest run of \w characters a word starts with.
WordPrefix(w) ==
    CASE w = "north?" -> "north"
      [] w = "north-east" -> "north"
      [] OTHER -> w

\* A regular expression that begins with a literal matches from the middle
\* of a word on: "subtotal sales in north" matches total\s+...
EndsWith(w, literal) ==
    \/ w = literal
    \/ w = "subtotal" /\ literal = "total"

NoMatch == [found |-> FALSE, column |-> "", value |-> ""]
Match(column, value) == [found |-> TRUE, column |-> column, value |-> value]

\* re.search(r'total\s+(\w+)\s+in\s+(\w+)', question_lower) from word i on:
\* the leftmost match.
RECURSIVE total_pattern(_, _)
total_pattern(words, i) ==
    IF i + 3 > Len(words) THEN NoMatch
    ELSE IF /\ EndsWith(words[i], "total")
            /\ PlainWord(words[i + 1])
            /\ words[i + 2] = "in"
         THEN Match(words[i + 1], WordPrefix(words[i + 3]))
         ELSE total_pattern(words, i + 1)

\* re.search(r'sum\s+(?:of\s+)?(\w+)\s+in\s+(\w+)', question_lower)
RECURSIVE sum_pattern(_, _)
sum_pattern(words, i) ==
    IF i + 3 > Len(words) THEN NoMatch
    ELSE IF /\ EndsWith(words[i], "sum")
            /\ PlainWord(words[i + 1])
            /\ words[i + 2] = "in"
         THEN Match(words[i + 1], WordPrefix(words[i + 3]))
         ELSE IF /\ i + 4 <= Len(words)
                 /\ EndsWith(words[i], "sum")
                 /\ words[i + 1] = "of"
                 /\ PlainWord(words[i + 2])
                 /\ words[i + 3] = "in"
         THEN Match(words[i + 2], WordPrefix(words[i + 4]))
         ELSE sum_pattern(words, i + 1)

\* re.search(r'(?:group\s+)?(\w+)\s+by\s+(\w+)', question_lower)
RECURSIVE group_pattern(_, _)
group_pattern(words, i) ==
    IF i + 2 > Len(words) THEN NoMatch
    ELSE IF PlainWord(words[i]) /\ words[i + 1] = "by"
         THEN Match(words[i], WordPrefix(words[i + 2]))
         ELSE group_pattern(words, i + 1)

\* schema_info of a table with the columns region, sales, marketing_spend.
available_cols == <<"region", "sales", "marketing_spend">>
categorical_cols == <<"region">>

\* for col in available_cols: if col.lower() == target_column
ActualColumn(target_column) ==
    IF \E i \in DOMAIN available_cols : available_cols[i] = target_column
    THEN target_column ELSE ""

\* The first categorical column named like a region, category or type,
\* else the first categorical column.
FilterColumn ==
    IF \E i \in DOMAIN categorical_cols : categorical_cols[i] = "region"
    THEN "region"
    ELSE IF categorical_cols # <<>> THEN categorical_cols[1] ELSE ""

GeneralProgram == [kind |-> "general", column |-> "", by |-> "", value |-> ""]

\* _generate_specific_query_code followed by _generate_analysis_code's
\* choice: the program emitted for a question.
generate_analysis_code(question) ==
    LET words == question_lower(question)
        total == total_pattern(words, 1)
        match == IF total.found THEN total ELSE sum_pattern(words, 1)
        group == group_pattern(words, 1)
    IN  IF match.found /\ ActualColumn(match.column) = ""
        THEN GeneralProgram          \* return None
        ELSE IF match.found /\ FilterColumn # ""
        THEN [kind |-> "specific", column |-> ActualColumn(match.column),
              by |-> FilterColumn, value |-> match.value]
        ELSE IF /\ group.found
                /\ ActualColumn(group.column) # ""
                /\ ActualColumn(group.value) # ""
        THEN [kind |-> "group", column |-> group.column,
              by |-> group.value, value |-> ""]
        ELSE GeneralProgram

\* df[column].unique(): the distinct values in order of first appearance
RECURSIVE Unique(_, _)
Unique(rows, column) ==
    IF rows = <<>> THEN <<>>
    ELSE LET rest == Unique(SubSeq(rows, 1, Len(rows) - 1), column)
             last == rows[Len(rows)][column]
         IN  IF \E i \in DOMAIN rest : rest[i] = last THEN rest
             ELSE Append(rest, last)

\* rows[column].sum()
RECURSIVE Sum(_, _)
Sum(rows, column) ==
    IF rows = <<>> THEN 0 ELSE Head(rows)[column] + Sum(Tail(rows), column)

\* filtered_data = df[df[filter_column] == target_value]
FilterRows(row, by, target_value) == row[by] = target_value

NothingReported == [found |-> FALSE, total |-> 0]

\* What the specific-query program prints when it is run on a table: the
\* total of the rows whose value is the first distinct one that, lowercased,
\* equals the word of the question; or that the value was not found.
RunSpecificQuery(program, rows) ==
    LET filter_values == Unique(rows, program.by)
        hits == {i \in DOMAIN filter_values :
                    Lower(filter_values[i]) = program.value}
    IN  IF hits = {} THEN NothingReported
        ELSE LET target_value ==
                     filter_values[CHOOSE i \in hits :
                                       \A j \in hits : i <= j]
                 Selected(row) == FilterRows(row, program.by, target_value)
             IN  [found |-> TRUE,
                  total |-> Sum(SelectSeq(rows, Selected), program.column)]

\* The tables: up to MaxRows rows of region, sales, marketing_spend.
RegionValues == {"North", "north", "South"}
SalesValues == {100, 50}
TableRows ==
    {[region |-> r, sales |-> s, marketing_spend |-> 10] :
        r \in RegionValues, s \in SalesValues}

RECURSIVE Tables(_)
Tables(n) ==
    IF n = 0 THEN {<<>>}
    ELSE Tables(n - 1)
         \cup {Append(t, row) : t \in Tables(n - 1), row \in TableRows}

\* The questions: a phrase, with or without words before and after it.
Prefixes ==
    {<<>>, <<"what", "is", "the">>,
     <<"total", "profit", "in", "2020", "and">>}
Phrases ==
    {<<"total", "sales", "in", "north">>,
     <<"Total", "Sales", "IN", "North">>,
     <<"subtotal", "sales", "in", "north">>,
     <<"total", "sales", "in", "north?">>,
     <<"total", "sales", "in", "northern">>,
     <<"sum", "of", "sales", "in", "north">>,
     <<"sales", "by", "region">>,
     <<"describe", "sales">>}
Suffixes == {<<>>, <<"by", "region">>}
QueryQuestions ==
    {a \o b \o c : a \in Prefixes, b \in Phrases, c \in Suffixes}

\* Code generation and the run of the generated program, as a function of
\* the question and the table.
Q_Init ==
    /\ Constructed
    /\ max_retries = MaxRetries
    /\ Started
    /\ Limited
    /\ Unmonitored
    /\ fn_in \in {[fn |-> "query", question |-> q, table |-> t] :
                     q \in QueryQuestions,
                     t \in Tables(MaxRows) \ {<<>>}}
    /\ fn_out = NoOutput

F_Query ==
    /\ fn_in.fn = "query"
    /\ fn_out = NoOutput
    /\ LET program == generate_analysis_code(fn_in.question)
       IN  fn_out' = [outcome |-> program.kind,
                      output |-> IF program.kind = "specific"
                                 THEN RunSpecificQuery(program, fn_in.table)
                                 ELSE NothingReported]
    /\ UNCHANGED <<fn_in, programVars, serverVars, monitoringVars>>

QuerySpec == Q_Init /\ [][F_Query]_vars

\* ------------------------------------------------------------------ claims
\* A program text that contains a denylisted construct or pattern.
Denylisted(c) ==
    \E f \in c.feat : StructurallyBlocked(f) \/ PatternHits(f) # {}

InFlight(call) ==
    {t \in DOMAIN tasks :
        tasks[t].call = call /\ tasks[t].state \in {"pending", "running"}}

Executing == {t \in DOMAIN tasks : tasks[t].wpc \in {"start", "exec", "post"}}

SecurityRaised ==
    pc = "returned" /\ ex_result.kind = "raise"
                    /\ ex_result.exc = "SecurityError"

\* C1: a program reaches the worker only after both validation passes have
\* accepted that same text: no submitted, queued or running program is
\* denylisted; and a call rejected by either pass returns SecurityError
\* having changed nothing of the sandbox (no task, no redirection, no file).
C1_ValidatedBeforeExecution ==
    /\ [](/\ \A t \in DOMAIN tasks : ~Denylisted(tasks[t].code)
          /\ (pc \in {"submit", "wait"} => ~Denylisted(code))
          /\ (SecurityRaised =>
                /\ Denylisted(code)
                /\ \A t \in DOMAIN tasks :
                      ~(tasks[t].call = calls /\ tasks[t].attempt = attempt)))
    /\ [][(pc \in {"validate_ast", "validate_patterns"} /\ pc' = "returned")
            => (/\ ex_result'.kind = "raise"
                /\ ex_result'.exc = "SecurityError"
                /\ UNCHANGED sandboxVars)]_vars

\* A call rejected by the pattern pass while an earlier, timed-out program
\* is still running in the worker.
C1_Witness ==
    /\ SecurityRaised
    /\ validate_code_ast(code)
    /\ ~validate_code_patterns(code)
    /\ \E t \in DOMAIN tasks : tasks[t].wpc = "exec"

\* C2: whenever execute_code returns or raises, sys.stdout and sys.stderr
\* are the streams that were installed when it was called.
C2_StreamsRestoredOnReturn ==
    pc = "returned" =>
        (sys_stdout = entry_stdout /\ sys_stderr = entry_stderr)

\* C3: when the program of attempt 1 is denylisted, nothing is executed, the
\* call ends with SecurityError, and neither the fixer nor attempt 2 runs.
C3_NoRetryAfterRejection ==
    /\ []((attempt = 1 /\ Denylisted(code)) =>
            /\ execs = 0
            /\ pc \in {"validate_ast", "validate_patterns", "returned", "done"}
            /\ (pc = "returned" => SecurityRaised)
            /\ (pc = "done" => (/\ outcome.kind = "raise"
                                /\ outcome.exc = "SecurityError")))
    /\ [][(attempt = 1 /\ Denylisted(code) /\ pc # "done")
            => (attempt' = 1 /\ code' = code /\ next_id' = next_id)]_vars

C3_Witness ==
    /\ pc = "done"
    /\ attempt = 1
    /\ Denylisted(code)
    /\ max_retries > 1
    /\ outcome.kind = "raise"
    /\ outcome.exc = "SecurityError"

\* C4: when execute_code raises SecurityError or TimeoutError on attempt k,
\* process_question raises an exception of that kind and starts no further
\* attempt: no regeneration, no submission.
C4_TerminalFaults ==
    [][(/\ pc = "returned"
        /\ ex_result.kind = "raise"
        /\ ex_result.exc \in {"SecurityError", "TimeoutError"})
        => (/\ attempt' = attempt
            /\ code' = code
            /\ next_id' = next_id
            /\ \/ (pc' = "returned" /\ ex_result' = ex_result)
               \/ (/\ pc' = "done"
                   /\ outcome'.kind = "raise"
                   /\ outcome'.exc = ex_result.exc))]_vars

\* A timeout on an attempt that is not the last one ended the call.
C4_Witness ==
    /\ pc = "done"
    /\ outcome.kind = "raise"
    /\ outcome.exc = "TimeoutError"
    /\ attempt >= 1
    /\ attempt < max_retries

C6_FirstSuccessEnds ==
    /\ [][(/\ pc = "returned"
           /\ ex_result.kind = "result"
           /\ ex_result.success
           /\ pc' # "returned")
           => (/\ pc' = "done"
               /\ attempt \in 1..max_retries
               /\ outcome'.kind = "answer"
               /\ outcome'.attempts = attempt
               /\ outcome'.answer = <<Run("x", 1, cur)>>
               /\ outcome'.answer = ex_result.output
               /\ outcome'.chart_url = ex_result.chart_url
               /\ (\/ outcome'.chart_url = None
                   \/ [name |-> outcome'.chart_url, by |-> cur]
                          \in static_files)
               /\ next_id' = next_id)]_vars
    /\ []((pc = "done" /\ outcome.kind = "answer"
                       /\ outcome.analysis_type # "error")
            => (InFlight(calls) = {} /\ execs = outcome.attempts))

C6_Witness ==
    /\ pc = "done"
    /\ outcome.kind = "answer"
    /\ outcome.analysis_type = "visualization"
    /\ outcome.attempts = 2
    /\ [name |-> outcome.chart_url, by |-> cur] \in static_files
    /\ outcome.answer = <<Run("x", 1, cur)>>

C8_SingleWorker == Cardinality(Executing) <= 1

\* A program started after an earlier call timed out on a program that
\* has kept running: the timed-out future is gone, a later one is queued.
C8_Witness ==
    /\ \E t \in DOMAIN tasks : tasks[t].wpc = "exec" /\ tasks[t].cancel_called
    /\ queue # <<>>
    /\ pc = "wait"

\* C9: within one call, at most one execution is in flight, none is in
\* flight while the next program is generated, validated and submitted, and
\* the attempt counter moves on only from a received outcome.
C9_SequentialAttempts ==
    /\ [](/\ Cardinality(InFlight(calls)) <= 1
          /\ (pc \in {"generate", "validate_ast", "validate_patterns",
                      "submit"} => InFlight(calls) = {}))
    /\ [][(attempt >= 1 /\ attempt' # attempt /\ calls' = calls)
            => (/\ attempt' = attempt + 1
                /\ pc = "returned"
                /\ ex_result.kind # "none"
                /\ InFlight(calls) = {})]_vars

C9_Witness ==
    /\ attempt = 2
    /\ pc = "wait"
    /\ tasks[cur].state = "running"
    /\ tasks[cur].attempt = 2
    /\ InFlight(calls) = {cur}

\* C10: execute_code leaves the wait: with the result exactly when the
\* worker has delivered it, otherwise by calling cancel on the future and
\* raising TimeoutError; and it always leaves the wait.
C10_TimeoutHandsBack ==
    /\ [][(pc = "wait" /\ pc' # "wait")
            => /\ pc' = "returned"
               /\ IF tasks[cur].state = "finished"
                  THEN ex_result' = tasks[cur].result
                  ELSE /\ ex_result'.kind = "raise"
                       /\ ex_result'.exc = "TimeoutError"
                       /\ tasks'[cur].cancel_called
                       /\ tasks'[cur].state \in {"cancelled", "running"}]_vars
    /\ ((pc = "wait") ~> (pc = "returned"))

\* A program that never terminates was timed out and cancel was called.
C10_Witness ==
    /\ pc = "returned"
    /\ ex_result.kind = "raise"
    /\ ex_result.exc = "TimeoutError"
    /\ cur \in DOMAIN tasks
    /\ tasks[cur].code.beh = "hang"
    /\ tasks[cur].wpc = "exec"
    /\ tasks[cur].cancel_called

\* ---------------------------------------------------------------- C11
\* C11 (as stated): at the HTTP boundary a SecurityError of
\* process_question is answered 403 and a TimeoutError of the agent is
\* answered 408; neither is answered 500.
C11_FaultStatuses ==
    (http_status # NoStatus /\ outcome.kind = "raise") =>
        /\ outcome.exc = "SecurityError" => http_status = 403
        /\ outcome.exc = "TimeoutError" => http_status = 408
        /\ outcome.exc \in {"SecurityError", "TimeoutError"} =>
               http_status # 500

\* ---------------------------------------------------------------- C19
\* The arguments process_question refuses.
Malformed(req) ==
    \/ req.df \in {"None", "empty"}
    \/ req.question \in {"None", "", "blank"}

\* C19: a call with a None or empty table, or with an empty or
\* whitespace-only question, ends at once with ValidationError, unwrapped:
\* no program is generated, validated, submitted or run for it.
C19_MalformedInputRejected ==
    (calls > 0 /\ Malformed(request)) =>
        /\ pc = "done"
        /\ outcome = Raised("ValidationError", {})
        /\ code = NoProgram
        /\ attempt = 0
        /\ execs = 0
        /\ \A t \in DOMAIN tasks : tasks[t].call # calls

\* A whitespace-only question for a table with rows has been refused, in a
\* call that follows one which ran a program.
C19_Witness ==
    /\ calls = 2
    /\ request = [df |-> "rows", question |-> "blank"]
    /\ pc = "done"
    /\ outcome.kind = "raise"
    /\ next_id > 1

\* ---------------------------------------------------------------- C12
\* The table a namespace's df stands for.
Deref(d) == IF d.owner = Caller THEN table ELSE d.data

\* C12: no executed program modifies the caller's table: the caller's
\* table keeps its initial value through every sequence of attempts, and
\* the df of every run that has not executed yet holds the original data.
C12_TableNeverModified ==
    /\ table = OriginalData
    /\ \A t \in DOMAIN tasks :
          tasks[t].wpc \in {"queued", "start", "exec"} =>
              Deref(tasks[t].df) = OriginalData

\* The second attempt of a call is about to run after the first one changed
\* its df in place and failed.
C12_Witness ==
    /\ attempt = 2
    /\ failed_runs = 1
    /\ last_error_type = "KeyError"
    /\ cur \in DOMAIN tasks
    /\ tasks[cur].wpc = "exec"
    /\ tasks[cur].attempt = 2

\* ---------------------------------------------------------------- C13
\* The failed result for a program that raised an ordinary exception.
CapturedFailure(res, beh) ==
    /\ res.kind = "result"
    /\ res.success = FALSE
    /\ res.error = ErrorWordsOf(beh)
    /\ res.error_type = ErrorTypeOf(beh)
    /\ res.keys = {"success", "error", "error_type", "traceback",
                   "execution_time"}
    /\ res.chart_url = None

\* C13: an ordinary exception raised by a validated program is not
\* propagated: the frame delivers, and execute_code returns, a result with
\* success false, the message, the type name, the traceback and the
\* execution time, and without a chart reference (unless the deadline
\* elapsed first, which is reported as TimeoutError).
C13_OrdinaryExceptionCaptured ==
    /\ \A t \in DOMAIN tasks :
          (tasks[t].state = "finished" /\ tasks[t].code.beh \in RaiseBehaviours)
              => CapturedFailure(tasks[t].result, tasks[t].code.beh)
    /\ (/\ pc = "returned"
        /\ code.beh \in RaiseBehaviours
        /\ code.feat = {})
          => \/ CapturedFailure(ex_result, code.beh)
             \/ (ex_result.kind = "raise" /\ ex_result.exc = "TimeoutError")

\* execute_code has returned the failed result of a program that divided
\* by zero.
C13_Witness ==
    /\ pc = "returned"
    /\ code = [feat |-> {}, beh |-> "raise_other", by |-> "generator"]
    /\ cur \notin DOMAIN tasks
    /\ ex_result.kind = "result"
    /\ ex_result.error_type = "ZeroDivisionError"

\* ---------------------------------------------------------------- C18
\* Every character of the text was written by the program of run t.
WrittenBy(text, t) == \A i \in DOMAIN text : text[i].by = t

\* C18: the captured output and error text of a run are exactly what its
\* own program wrote during that run, never text of another run, also after
\* failed or timed-out runs; a run that completes and wrote nothing to the
\* error stream delivers success with empty errors.
C18_CaptureIsolation ==
    \A t \in DOMAIN tasks :
        LET f == tasks[t]
            ran == f.wpc \in {"post", "returned"}
        IN  /\ WrittenBy(f.captured_output, t)
            /\ WrittenBy(f.captured_errors, t)
            /\ f.captured_output =
                  IF ran /\ f.code.beh \in Completing
                  THEN <<Run("x", 1, t), Run("ws", 1, t)>> ELSE <<>>
            /\ f.captured_errors =
                  IF ran /\ f.code.beh = "ok_effects"
                  THEN <<Run("x", 1, t), Run("ws", 1, t)>> ELSE <<>>
            /\ (f.state = "finished" /\ f.code.beh \in Completing) =>
                  /\ f.result.kind = "result"
                  /\ f.result.success
                  /\ WrittenBy(f.result.output, t)
                  /\ WrittenBy(f.result.errors, t)
                  /\ (f.code.beh # "ok_effects" => f.result.errors = <<>>)

\* The second attempt of the second call has completed with empty errors,
\* after a failed attempt of that call and after the runs of the first call.
C18_Witness ==
    /\ calls = 2
    /\ attempt = 2
    /\ failed_runs = 1
    /\ next_id > 3
    /\ cur \in DOMAIN tasks
    /\ tasks[cur].state = "finished"
    /\ tasks[cur].code.beh = "ok"
    /\ tasks[cur].result.errors = <<>>
    /\ tasks[cur].result.output = <<Run("x", 1, cur)>>

\* ---------------------------------------------------------------- C15
\* A program that each of the two passes would reject on its own, such as
\* print(__import__('os').listdir('.')).
BothReject(c) ==
    /\ \E f \in c.feat : StructurallyBlocked(f)
    /\ \E f \in c.feat : PatternHits(f) # {}

\* C15 (as stated): a program that both passes would reject is rejected by
\* the lexical pattern pass, before the structural pass runs.
C15_LexicalPassRejectsFirst ==
    (/\ pc = "returned"
     /\ BothReject(code)
     /\ ex_result.kind = "raise"
     /\ ex_result.exc = "SecurityError")
        => ex_result.words = {"dangerous pattern"}

\* C15 amended: a program that both passes would reject is rejected by the
\* structural pass, and the lexical pattern pass never runs for it.
C15_StructuralPassRejectsFirst ==
    /\ (/\ pc = "returned"
        /\ BothReject(code)
        /\ ex_result.kind = "raise"
        /\ ex_result.exc = "SecurityError")
           => ex_result.words = {"blocked"}
    /\ pc = "validate_patterns" => ~BothReject(code)

\* execute_code has raised SecurityError for a program with a dunder
\* attribute access, which both passes reject.
C15_Witness ==
    /\ pc = "returned"
    /\ BothReject(code)
    /\ ex_result.kind = "raise"
    /\ ex_result.exc = "SecurityError"

\* ---------------------------------------------------------------- C17
\* Run t leaves _execute_with_monitoring in this step.
Leaves(t) ==
    /\ t \in DOMAIN tasks
    /\ tasks[t].wpc = "post"
    /\ (t \notin DOMAIN tasks' \/ tasks'[t].wpc = "returned")

\* The chart reference run t delivers is r (when a caller still waits).
Delivers(t, r) ==
    t \in DOMAIN tasks' => (tasks'[t].result.kind = "result"
                            /\ tasks'[t].result.chart_url = r)

\* The files run t has written.
FilesOf(t) == {f \in static_files : f.by = t}

C20_OnlyAllowedBuiltins ==
    /\ SafeBuiltinNames \cap BLOCKED_BUILTINS = {}
    /\ \A t \in DOMAIN tasks :
          /\ tasks[t].safe_builtins \subseteq
                {"len", "str", "int", "float", "bool", "list", "dict",
                 "tuple", "set", "range", "enumerate", "zip", "sorted",
                 "sum", "min", "max", "abs", "round", "type", "print"}
          /\ tasks[t].safe_builtins \cap BLOCKED_BUILTINS = {}

\* A program of the second call runs in a namespace that has print and len.
C20_Witness ==
    /\ calls = 2
    /\ cur \in DOMAIN tasks
    /\ tasks[cur].call = 2
    /\ tasks[cur].wpc = "exec"
    /\ {"print", "len"} \subseteq tasks[cur].safe_builtins

\* ---------------------------------------------------------------- C14
\* A node the structural pass is to refuse.
DeniedNode(n) ==
    \/ n.kind \in {"Import", "ImportFrom", "FunctionDef", "AsyncFunctionDef",
                   "ClassDef", "Try", "ExceptHandler", "Raise", "Assert",
                   "Global", "Nonlocal", "Delete", "With", "AsyncWith"}
    \/ (n.kind = "Attribute" /\ n.id \in BLOCKED_ATTRIBUTES)
    \/ (n.kind = "Call" /\ n.kids[1].kind = "Name"
                        /\ n.kids[1].id \in BLOCKED_BUILTINS)

\* A node whose text one of the patterns matches.
DangerousText(n) == \E f \in NodeText(n) : PatternHits(f) # {}

\* C14 (as stated): the validation ends with SecurityError for every
\* program that does not parse and for every program whose tree has, at any
\* depth, a node of a denylisted kind, a blocked attribute access or a
\* direct call of a blocked built-in; a program is accepted only if
\* neither the structural pass nor the pattern pass rejects it.
C14_ValidatorRejects ==
    fn_out.outcome # "none" =>
        LET src == fn_in.src IN
        /\ src.parse # "tree" => fn_out.outcome = "SecurityError"
        /\ (src.parse = "tree" /\ \E n \in Walk(src.tree) : DeniedNode(n))
              => fn_out.outcome = "SecurityError"
        /\ fn_out.outcome = "accepted" =>
              /\ src.parse = "tree"
              /\ \A n \in Walk(src.tree) :
                    ~DeniedNode(n) /\ ~DangerousText(n)

\* ---------------------------------------------------------------- C16
\* Whitespace only.
Blank(text) == \A i \in DOMAIN text : text[i].ch = "ws"

\* inner is outer without its leading and trailing whitespace.
Stripped(inner, outer) ==
    /\ inner # <<>> => (Head(inner).ch # "ws" /\ inner[Len(inner)].ch # "ws")
    /\ \E i \in 1..Len(outer) + 1, j \in 0..Len(outer) :
          /\ inner = SubSeq(outer, i, j)
          /\ Blank(SubSeq(outer, 1, i - 1))
          /\ Blank(SubSeq(outer, j + 1, Len(outer)))

\* C16 (as stated): the reported output is the captured output unchanged
\* when that has at most 10,000 characters, and otherwise its first 10,000
\* characters followed by the truncation marker; it never has more than
\* 10,000 characters plus the marker.
C16_OutputUnchangedOrTruncated ==
    fn_out.outcome = "reported" =>
        LET captured == fn_in.text
            reported == fn_out.output
        IN  /\ TextLen(captured) <= 10000 => reported = captured
            /\ TextLen(captured) > 10000 =>
                  reported = TakeChars(captured, 10000) \o TruncationMarker
            /\ TextLen(reported) <= 10000 + TextLen(TruncationMarker)

\* C16 amended: the reported output is the captured output without its
\* leading and trailing whitespace when that has at most 10,000
\* characters, and otherwise its first 10,000 characters followed by the
\* truncation marker, without leading whitespace; it never has more than
\* 10,000 characters plus the marker.
C16_OutputStrippedOrTruncated ==
    fn_out.outcome = "reported" =>
        LET captured == fn_in.text
            reported == fn_out.output
        IN  /\ TextLen(captured) <= 10000 => Stripped(reported, captured)
            /\ TextLen(captured) > 10000 =>
                  Stripped(reported,
                           TakeChars(captured, 10000) \o TruncationMarker)
            /\ TextLen(captured) > 10000 =>
                  reported[Len(reported)] = Run("m", 22, None)
            /\ TextLen(reported) <= 10000 + TextLen(TruncationMarker)

\* A captured text of 20,000 visible characters and a newline has been
\* reported as its first 10,000 characters and the marker.
C16_Witness ==
    /\ fn_out.outcome = "reported"
    /\ fn_in.text = <<Run("x", 10000, 1), Run("x", 10000, 1), Run("ws", 1, 1)>>
    /\ fn_out.output = <<Run("x", 10000, 1), Run("ws", 1, None),
                         Run("m", 22, None)>>

\* The request is inside a call of update_session.
InUpdateSession(r) ==
    /\ r \in DOMAIN reqs
    /\ \E i \in DOMAIN reqs[r].stack : reqs[r].stack[i].fn = "update_session"

\* update_session has returned to the handler of the request with the
\* updates applied and last_activity set.
UpdateReturned(r) ==
    /\ r \in DOMAIN reqs
    /\ reqs[r].stack = <<>>
    /\ reqs[r].at \in {"stored", "done"}
    /\ reqs[r].session_id \in DOMAIN sessions

\* The task waits for the lock that it took itself.
WaitsForOwnLock(r) ==
    /\ r \in DOMAIN reqs
    /\ reqs[r].stack # <<>>
    /\ Top(r).at = "acquire"
    /\ lock = r

\* C21: every call of update_session eventually returns with the updates
\* applied, so the upload of a valid CSV eventually completes with a session
\* that holds the table; the lock is always eventually released, and no
\* task waits for a lock it holds itself.
C21_UpdateSessionReturns ==
    /\ \A r \in 1..MaxRequests :
          /\ InUpdateSession(r) ~> UpdateReturned(r)
          /\ [](UpdateReturned(r) /\ reqs[r].kind = "upload" =>
                  sessions[reqs[r].session_id].dataframe = "rows")
          /\ []~WaitsForOwnLock(r)
    /\ []<>(lock = Unlocked)

\* The request is a question that names no session.
NamesNoSession(r) ==
    reqs[r].kind = "ask" /\ reqs[r].session_id = NoSessionId

\* The request is a question whose handler has got the session it names,
\* and that session holds no table.
FindsNoTable(r) ==
    /\ reqs[r].kind = "ask"
    /\ reqs[r].at = "session"
    /\ reqs[r].stack = <<>>
    /\ sessions[reqs[r].session_id].dataframe = "None"

\* The handler of the request has gone past its checks: it has called
\* update_session or process_question.
PassedOn(req) ==
    \/ req.asked
    \/ req.at = "stored"
    \/ \E i \in DOMAIN req.stack : req.stack[i].fn = "update_session"

Answered(req, status, detail) ==
    req.at = "done" /\ req.status = status /\ req.detail = detail

\* C22 as stated: a question without a session id is answered 400 'Session
\* ID required', one whose session has no table is answered 400 'No CSV
\* data found', and neither reaches process_question.
C22_RejectedWith400 ==
    /\ [](\A r \in DOMAIN reqs :
            NamesNoSession(r) =>
                /\ ~PassedOn(reqs[r])
                /\ (reqs[r].at = "done" =>
                        Answered(reqs[r], 400, "Session ID required")))
    /\ [][\A r \in DOMAIN reqs :
            (FindsNoTable(r) /\ reqs'[r] # reqs[r]) =>
                /\ Answered(reqs'[r], 400, "No CSV data found")
                /\ ~PassedOn(reqs'[r])]_vars

\* C22, amended: the rate limit is checked first, so a question the limiter
\* refuses is answered 429 whatever it names; a question the limiter admits
\* is answered 400 'Session ID required' when it names no session and 400
\* 'No CSV data found' when its session has no table; in none of these
\* cases is update_session or process_question called.
C22_RejectedWith400Or429 ==
    /\ [](\A r \in DOMAIN reqs :
            /\ NamesNoSession(r) =>
                /\ ~PassedOn(reqs[r])
                /\ (reqs[r].at = "done" =>
                        IF reqs[r].allowed
                        THEN Answered(reqs[r], 400, "Session ID required")
                        ELSE Answered(reqs[r], 429, "Rate limit exceeded"))
            /\ (reqs[r].kind = "ask" /\ ~reqs[r].allowed) =>
                /\ ~PassedOn(reqs[r])
                /\ (reqs[r].at = "done" =>
                        Answered(reqs[r], 429, "Rate limit exceeded")))
    /\ [][\A r \in DOMAIN reqs :
            (FindsNoTable(r) /\ reqs'[r] # reqs[r]) =>
                /\ Answered(reqs'[r], 400, "No CSV data found")
                /\ ~PassedOn(reqs'[r])]_vars

\* Three questions have been answered: one without a session id (400), one
\* for a session without a table (400), one refused by the limiter (429).
C22_Witness ==
    \E a, b, c \in DOMAIN reqs :
        /\ NamesNoSession(a)
        /\ Answered(reqs[a], 400, "Session ID required")
        /\ reqs[b].kind = "ask"
        /\ reqs[b].session_id # NoSessionId
        /\ Answered(reqs[b], 400, "No CSV data found")
        /\ reqs[c].kind = "ask"
        /\ Answered(reqs[c], 429, "Rate limit exceeded")

\* The requests of a client that check_rate_limit admitted with a
\* timestamp in the hour that ends at reading t: later than t - HOUR and not
\* later than t.
AdmittedInWindow(ip, t) ==
    {r \in DOMAIN reqs :
        /\ reqs[r].ip = ip
        /\ reqs[r].admitted_at # NotAdmitted
        /\ reqs[r].admitted_at > t - HOUR
        /\ reqs[r].admitted_at <= t}

\* The request is inside check_rate_limit, holding the lock.
InRateLimitCheck(r) ==
    /\ r \in DOMAIN reqs
    /\ reqs[r].stack # <<>>
    /\ Top(r) = [fn |-> "check_rate_limit", at |-> "locked"]

\* C23: for every client, the requests admitted with timestamps inside one
\* hour are never more than RATE_LIMIT_REQUESTS; a call returns False
\* exactly when the client already has that many admitted requests in the
\* last hour, and then records nothing; entries an hour old or older are
\* dropped, so the client is admitted again once they have left the window.
C23_RateLimit ==
    /\ [](\A ip \in ClientIps, t \in 0..MaxTime :
            Cardinality(AdmittedInWindow(ip, t)) <= RATE_LIMIT_REQUESTS)
    /\ [](\A ip \in DOMAIN request_counts :
            \A i \in DOMAIN request_counts[ip] :
                request_counts[ip][i] <= clock)
    /\ [][\A r \in 1..MaxRequests :
            (InRateLimitCheck(r) /\ reqs'[r] # reqs[r]) =>
                LET ip == reqs[r].ip
                    full == Cardinality(AdmittedInWindow(ip, clock))
                                >= RATE_LIMIT_REQUESTS
                    InLastHour(req_time) == req_time > clock - HOUR
                    before == SelectSeq(TimesOf(request_counts, ip),
                                        InLastHour)
                IN  /\ reqs'[r].allowed = ~full
                    /\ request_counts'[ip] =
                          IF full THEN before ELSE Append(before, clock)
                    /\ Len(request_counts'[ip]) =
                          Cardinality(AdmittedInWindow(ip, clock))
                              + (IF full THEN 0 ELSE 1)
                    /\ \A other \in DOMAIN request_counts \ {ip} :
                          request_counts'[other] = request_counts[other]]_vars

\* A client that had used up its limit has been admitted again after its
\* old requests left the window.
C23_Witness ==
    \E r \in DOMAIN reqs :
        /\ reqs[r].admitted_at = clock
        /\ request_counts[reqs[r].ip] = <<clock>>
        /\ Cardinality({q \in DOMAIN reqs :
                           /\ reqs[q].ip = reqs[r].ip
                           /\ reqs[q].admitted_at = clock - HOUR})
              = RATE_LIMIT_REQUESTS

\* The text of the question contains "total sales in north".
ContainsPhrase(question) ==
    LET words == question_lower(question)
    IN  \E i \in DOMAIN words :
            /\ i + 3 <= Len(words)
            /\ EndsWith(words[i], "total")
            /\ words[i + 1] = "sales"
            /\ words[i + 2] = "in"
            /\ words[i + 3] \in {"north", "north?", "north-east", "northern"}

\* The sum of sales over the rows whose region is north in any spelling.
NorthSales(rows) ==
    LET IsNorth(row) == Lower(row.region) = "north"
    IN  Sum(SelectSeq(rows, IsNorth), "sales")

\* C24: for a question that contains "total sales in north" the generator
\* takes the specific-query path, and the program reports the sum of sales
\* over exactly the rows whose region equals north case-insensitively.
C24_TotalSalesInNorth ==
    (fn_in.fn = "query" /\ fn_out # NoOutput
        /\ ContainsPhrase(fn_in.question)) =>
        /\ fn_out.outcome = "specific"
        /\ fn_out.output = [found |-> TRUE,
                            total |-> NorthSales(fn_in.table)]

\* ---------------------------------------------------------------- C25
\* The runs whose caller has timed out while they were running.
TimedOutRunning ==
    {t \in DOMAIN tasks : tasks[t].state = "running" /\ tasks[t].cancel_called}

\* The run never finishes by itself.
Hangs(t) == tasks[t].code.beh = "hang"

\* C25: a program that is running when its caller times out is not stopped
\* by the cancellation: it keeps the only worker until it finishes by
\* itself.  No program submitted meanwhile starts before that, and when the
\* run never finishes every later call that submits a program ends in
\* TimeoutError with its program never executed.  A cancelled pending task
\* never runs: the worker can only remove it.
C25_TimedOutRunKeepsWorker ==
    /\ [](\A t \in TimedOutRunning : \A u \in DOMAIN tasks \ {t} :
            /\ u > t
            /\ tasks[u].state \in {"pending", "cancelled"}
            /\ tasks[u].wpc = "queued")
    /\ [][\A t \in TimedOutRunning :
            \/ t \in DOMAIN tasks' /\ tasks'[t].state = "running"
            \/ t \notin DOMAIN tasks' /\ tasks[t].wpc = "post" /\ ~Hangs(t)]_vars
    /\ []((/\ pc = "returned"
           /\ cur \in DOMAIN tasks
           /\ \E t \in TimedOutRunning : Hangs(t) /\ t < cur)
            => /\ ex_result = TimeoutOutcome
               /\ tasks[cur].state = "cancelled"
               /\ tasks[cur].wpc = "queued")
    /\ [][\A u \in DOMAIN tasks : tasks[u].state = "cancelled" =>
            \/ u \notin DOMAIN tasks'
            \/ tasks'[u] = tasks[u]]_vars

\* A program hangs after its caller has timed out, and the next call, whose
\* program waited in the queue behind it, has ended in TimeoutError.
C25_Witness ==
    /\ calls = 2
    /\ pc = "returned"
    /\ ex_result = TimeoutOutcome
    /\ cur \in DOMAIN tasks
    /\ tasks[cur].state = "cancelled"
    /\ \E t \in TimedOutRunning : Hangs(t) /\ t < cur /\ tasks[t].call = 1

\* ---------------------------------------------------------------- C26
\* The run t has finished late: its caller had timed out before.
FinishesLate(t) ==
    /\ t \in TimedOutRunning
    /\ tasks[t].wpc = "post"
    /\ t \notin DOMAIN tasks'

\* C26: whenever no program is executing in the worker, sys.stdout and
\* sys.stderr are the original streams.  Each run restores the streams it
\* saved, runs do not overlap, so the saved streams are the original ones;
\* a timed-out run that finishes late restores them too and installs no
\* capture buffer again.
C26_StreamsOriginalWhenIdle ==
    /\ [](Executing = {} => (sys_stdout = Orig /\ sys_stderr = Orig))
    /\ [](\A t \in DOMAIN tasks :
            /\ tasks[t].old_stdout = Orig
            /\ tasks[t].old_stderr = Orig)
    /\ [][\A t \in DOMAIN tasks : FinishesLate(t) =>
            (sys_stdout' = Orig /\ sys_stderr' = Orig)]_vars
    /\ [][(sys_stdout' # sys_stdout /\ sys_stdout' # Orig) =>
            /\ sys_stdout = Orig
            /\ sys_stdout' \in DOMAIN tasks
            /\ tasks[sys_stdout'].wpc = "start"]_vars

\* No program is executing and the streams are the original ones, after a
\* run that had timed out finished late in the second call.
C26_Witness ==
    /\ Executing = {}
    /\ sys_stdout = Orig
    /\ sys_stderr = Orig
    /\ calls = 2
    /\ next_id > 1
    /\ DOMAIN tasks = {}
    /\ pc = "returned"
    /\ ex_result = TimeoutOutcome
    /\ cur \notin DOMAIN tasks

\* ---------------------------------------------------------------- C27
\* The runs that are past exec with a figure of their own.
FigureOwners ==
    {t \in DOMAIN tasks : tasks[t].wpc = "post" /\ OpensFigure(tasks[t].code.beh)}

\* C27: when _execute_with_monitoring returns or raises, with or without a
\* chart, after a failed save, a captured failure or a memory or interrupt
\* failure, no figure is open.  An open figure therefore belongs to the run
\* that is executing, and a chart file is only written for a figure that
\* the writing run created itself.
C27_NoFigureLeaks ==
    /\ [][\A t \in DOMAIN tasks : Leaves(t) => ~figures']_vars
    /\ [](figures => FigureOwners # {})
    /\ [](Executing = {} => ~figures)
    /\ [][\A f \in static_files' \ static_files : f.by \in FigureOwners]_vars

\* A program that draws nothing has completed without a chart, as the
\* second attempt after a program that ran out of memory while drawing.
C27_Witness ==
    /\ pc = "wait"
    /\ attempt = 2
    /\ last_error_type = "ExecutionError"
    /\ tasks[cur].state = "finished"
    /\ tasks[cur].code.beh = "ok"
    /\ tasks[cur].code.by = "memory"
    /\ tasks[cur].result.chart_url = None
    /\ static_files = {}
    /\ ~figures

\* ---------------------------------------------------------------- C28
\* The program ends in MemoryError or KeyboardInterrupt when it is run.
BreaksOff(c) == c.beh \in {"memory", "interrupt"}

\* The ExecutionError _execute_with_monitoring raises for such a program.
BrokenOff(res) ==
    /\ res.kind = "raise"
    /\ res.exc = "ExecutionError"
    /\ res.words \in {{"memory"}, {"interrupted"}}

\* C28: a program that exceeds the memory ceiling or is interrupted makes
\* execute_code raise ExecutionError, never return a result or raise
\* SecurityError, and raise TimeoutError only if the deadline passed first;
\* the streams are restored when it is raised.  On an attempt before the
\* last one process_question goes on: it records the message and the type
\* ExecutionError, counts the next attempt, and the next program is the
\* fixer's for that message and type.
C28_BrokenOffRunIsRetried ==
    /\ [](\A t \in DOMAIN tasks :
            (tasks[t].state = "finished" /\ BreaksOff(tasks[t].code))
                => BrokenOff(tasks[t].result))
    /\ []((pc = "returned" /\ BreaksOff(code) /\ ~Denylisted(code)) =>
            \/ ex_result = TimeoutOutcome
            \/ /\ BrokenOff(ex_result)
               /\ sys_stdout = Orig
               /\ sys_stderr = Orig)
    /\ [][(pc = "returned" /\ BrokenOff(ex_result) /\ attempt < max_retries) =>
            /\ pc' = "generate"
            /\ attempt' = attempt + 1
            /\ last_error' = ex_result.words
            /\ last_error_type' = "ExecutionError"
            /\ outcome' = outcome]_vars
    /\ [][(pc = "generate" /\ attempt > 1 /\ BrokenOff(ex_result)
                /\ pc' # pc) =>
            /\ pc' = "validate_ast"
            /\ \E b \in Behaviours :
                  code' = fix_code_intelligently(ex_result.words,
                                                 "ExecutionError", b)]_vars

\* The second attempt runs the program the fixer wrote for the memory
\* failure of the first.
C28_Witness ==
    /\ attempt = 2
    /\ pc = "wait"
    /\ last_error = {"memory"}
    /\ last_error_type = "ExecutionError"
    /\ code.by = "memory"
    /\ tasks[cur].attempt = 2
    /\ tasks[cur].wpc = "exec"
    /\ failed_runs = 0

\* ---------------------------------------------------------------- C29
\* execute_code has ended attempt k in a failure that is retried: a failed
\* result, or an exception other than SecurityError and TimeoutError.
RetriedFailure(res) ==
    \/ res.kind = "result" /\ ~res.success
    \/ res.kind = "raise" /\ ~NonRetryable(res.exc)

\* The message and the type process_question records for a failure.
MessageOf(res) == IF res.kind = "result" THEN res.error ELSE res.words
TypeOf(res) == IF res.kind = "result" THEN res.error_type ELSE res.exc

Regenerated == attempt > 1 /\ code.by \in {"key", "plot", "memory", "generic"}

\* C30: no program the fixer writes contains a construct the validator
\* rejects, so an attempt that retries a runtime failure never ends in
\* SecurityError.
C30_RegeneratedProgramAccepted ==
    Regenerated =>
        /\ validate_code_ast(code)
        /\ validate_code_patterns(code)
        /\ ~SecurityRaised

\* ---------------------------------------------------------------- C34
\* process_question has returned (it did not raise).
Returned == pc = "done" /\ outcome.kind \notin {"none", "raise"}

\* C34: whatever max_retries the agent is configured with, a value
\* process_question returns is an answer object with a non-empty answer
\* text, an analysis_type of computation, visualization,
\* visualization_attempted or error, and attempts in 1..max_retries.
C34_AnswerObjectReturned ==
    Returned =>
        /\ outcome.kind = "answer"
        /\ outcome.answer # <<>>
        /\ outcome.analysis_type \in {"computation", "visualization",
                                      "visualization_attempted", "error"}
        /\ outcome.attempts \in 1..max_retries

\* ---------------------------------------------------------------- C35
\* C35: once execute_code has raised TimeoutError for a run, the run
\* writes no chart file, also when its program finishes later with a
\* figure open.
C35_NoChartAfterTimeout ==
    [][\A f \in static_files' \ static_files :
          ~(f.by \in DOMAIN tasks /\ tasks[f.by].cancel_called)]_vars

\* ---------------------------------------------------------------- C33
\* The program of run t is about to be executed by exec().
AboutToRun(t) == t \in DOMAIN tasks /\ tasks[t].wpc = "exec"

\* C33: nothing a program binds or changes, by assignment at top level or
\* through the names of its namespace, can be observed by the program of a
\* later run: every program starts with the table as the caller passed it
\* and with the modules as they were imported.
C33_NamespaceIsolation ==
    \A t \in DOMAIN tasks : AboutToRun(t) =>
        /\ tasks[t].df.owner = t
        /\ tasks[t].df.data = OriginalData
        /\ modules = Unchanged

\* ---------------------------------------------------------------- C32
\* The agent constructed on any platform, then used as in Spec.
L_Init ==
    /\ Constructed
    /\ max_retries = MaxRetries
    /\ rlimits \in {setup_resource_limits(p) : p \in Platforms}
    /\ Started
    /\ Unmonitored
    /\ fn_in = NoInput
    /\ fn_out = NoOutput

LimitsSpec == L_Init /\ [][Next]_vars

\* execute_code is waiting for a run that has not delivered.
AwaitsRun == pc = "wait" /\ tasks[cur].state # "finished"

\* C32 (as stated): the ceilings are set in the constructor and no call,
\* attempt or retry changes them; where the resource module is missing or
\* setting fails, the sandbox is constructed all the same, no limit is set,
\* and a run that has not delivered can still time out.
C32_LimitsSetOnceOrNotAtAll ==
    /\ [][rlimits' = rlimits]_vars
    /\ [](rlimits.warning = "none" =>
            (rlimits.memory = MAX_MEMORY_MB /\ rlimits.cpu = MAX_CPU_TIME))
    /\ [](rlimits.warning # "none" =>
            (rlimits.memory = RLIM_INFINITY /\ rlimits.cpu = RLIM_INFINITY))
    /\ [](AwaitsRun => ENABLED E_Timeout)

\* C32 amended: where setting a ceiling fails, a ceiling set before the
\* failure stays: the memory ceiling may be set while the CPU ceiling is
\* not.  Without the resource module no limit is set.
C32_LimitsSetOnceMaybePartly ==
    /\ [][rlimits' = rlimits]_vars
    /\ [](rlimits.warning = "none" =>
            (rlimits.memory = MAX_MEMORY_MB /\ rlimits.cpu = MAX_CPU_TIME))
    /\ [](rlimits.warning = "unavailable" =>
            (rlimits.memory = RLIM_INFINITY /\ rlimits.cpu = RLIM_INFINITY))
    /\ [](rlimits.warning = "failed" =>
            /\ rlimits.memory \in {RLIM_INFINITY, MAX_MEMORY_MB}
            /\ rlimits.cpu = RLIM_INFINITY)
    /\ [](AwaitsRun => ENABLED E_Timeout)

\* Setting the CPU ceiling failed after the memory ceiling was set; the
\* second attempt of a call waits for its run, which can time out.
C32_Witness ==
    /\ rlimits.warning = "failed"
    /\ rlimits.memory = MAX_MEMORY_MB
    /\ rlimits.cpu = RLIM_INFINITY
    /\ attempt = 2
    /\ AwaitsRun
    /\ tasks[cur].wpc = "exec"

\* ---------------------------------------------------------------- C36
\* The session ids the uploads received so far were given.
UploadedIds ==
    {reqs[r].session_id : r \in {q \in DOMAIN reqs : reqs[q].kind = "upload"}}

\* C36: a question that is rejected leaves the sessions as they are, and
\* looking up a session id no upload was given adds no session: every
\* session in the table is the session of an upload.
C36_LookupAddsNoSession ==
    /\ DOMAIN sessions \subseteq UploadedIds
    /\ \A r \in DOMAIN reqs :
          (reqs[r].kind = "ask" /\ reqs[r].status = 400) =>
              reqs[r].session_id \notin DOMAIN sessions \ UploadedIds

\* Task q has been suspended at an await and could go on now: its awaited
\* read is over, or the lock it waits for is free.
Resumable(q) ==
    /\ q \in DOMAIN reqs
    /\ \/ reqs[q].stack = <<>> /\ reqs[q].at = "read"
       \/ /\ reqs[q].stack # <<>>
          /\ Top(q).at = "acquire"
          /\ lock = Unlocked

\* Task r is inside process_question, at the wait for the worker's result.
AwaitsWorker(r) ==
    /\ r \in DOMAIN reqs
    /\ reqs[r].at = "worker"

\* C31: while one process_question call waits for the worker's result the
\* caller-facing layer is not blocked: the call is suspended at that wait,
\* so the event loop is free and every other request in flight that could
\* go on can take its next step.
C31_LoopFreeWhileWorkerRuns ==
    \A r \in DOMAIN reqs :
        AwaitsWorker(r) =>
            /\ running # r
            /\ \A q \in DOMAIN reqs \ {r} :
                  Resumable(q) =>
                      ENABLED (H_Step(q) \/ G_Step(q) \/ L_Acquire(q))

\* Task r is inside "async with self._lock" of some coroutine of app_state.
InsideLock(r) ==
    /\ r \in DOMAIN reqs
    /\ \E i \in DOMAIN reqs[r].stack :
          reqs[r].stack[i].at \in {"locked", "resumed"}

\* This step is the body of cleanup_old_sessions, run by task r.
CleanupBy(r) ==
    /\ r \in DOMAIN reqs
    /\ reqs[r].stack = <<[fn |-> "cleanup_old_sessions", at |-> "locked"]>>
    /\ reqs'[r].stack = <<>>

\* The age of a session, in clock readings.
Age(session) == clock - session.last_activity

\* C37: cleanup_old_sessions removes exactly the sessions whose
\* last_activity is more than 24 hours old and leaves every other session
\* and its contents unchanged; it runs holding the session lock, so no
\* other task is inside the lock (between reading and updating a session)
\* when it removes one.
C37_CleanupRemovesExpiredOnly ==
    [][\A r \in 1..MaxTasks :
          CleanupBy(r) =>
              /\ lock = r
              /\ \A q \in DOMAIN reqs \ {r} : ~InsideLock(q)
              /\ DOMAIN sessions' =
                     {s \in DOMAIN sessions : ~(Age(sessions[s]) > DAY)}
              /\ \A s \in DOMAIN sessions' : sessions'[s] = sessions[s]]_vars

\* A cleanup has run a day later: the session of an earlier question is
\* gone, and a session that is exactly 24 hours old is still there.
C37_Witness ==
    /\ \E r \in DOMAIN reqs :
          reqs[r].kind = "cleanup" /\ reqs[r].at = "done"
    /\ \E r \in DOMAIN reqs :
          /\ reqs[r].kind = "ask"
          /\ reqs[r].detail = "No CSV data found"
          /\ reqs[r].session_id \notin DOMAIN sessions
    /\ \E s \in DOMAIN sessions : Age(sessions[s]) = DAY

\* The threads inside record_request that have written request_count and
\* not yet the success or error count.
Counting ==
    {t \in DOMAIN threads :
        /\ threads[t].job = "caller"
        /\ threads[t].op = "record_request"
        /\ threads[t].pc \in {"outcome", "store"}}

\* The record_request calls that have returned.
RecordedRequests == sum([t \in DOMAIN threads |-> threads[t].recorded])

\* C38: under any interleaving of concurrent record_request calls, every
\* summary that get_metrics_summary has returned has total = successful +
\* failed and a success rate between 0 and 100; each call adds exactly one
\* to request_count (no update is lost), and to one of the two other
\* counters.
C38_RequestCountersConsistent ==
    /\ \A t \in DOMAIN threads :
          threads[t].summary # NoSummary =>
              LET s == threads[t].summary
              IN  /\ s.total_requests
                       = s.successful_requests + s.failed_requests
                  /\ s.success_rate >= 0
                  /\ s.success_rate <= 100
    /\ metrics_collector.request_count
           = RecordedRequests + Cardinality(Counting)
    /\ metrics_collector.success_count + metrics_collector.error_count
           = RecordedRequests

\* A summary with both outcomes has been read, and another thread is in the
\* middle of record_request: it has counted its request and not the outcome.
C38_Witness ==
    \E t, u \in DOMAIN threads :
        /\ t # u
        /\ threads[t].summary.total_requests >= 2
        /\ threads[t].summary.successful_requests >= 1
        /\ threads[t].summary.failed_requests >= 1
        /\ u \in Counting

\* The loop threads that are collecting metrics.
Collecting ==
    {l \in DOMAIN threads :
        threads[l].job = "loop" /\ threads[l].pc = "collect"}

\* C39: after any sequence of start_monitoring and stop_monitoring calls at
\* most one loop thread is collecting metrics at a time, and it is the
\* thread the last start created: a loop stopped by stop_monitoring does not
\* collect again after a later start_monitoring has created a new loop.
C39_OneLoopCollects ==
    /\ Cardinality(Collecting) <= 1
    /\ \A l \in Collecting : l = system_monitor.monitor_thread

\* The list holds the n most recent of the entries 1, 2, ... last, in
\* order, or all of them when there are not more than n.
MostRecent(list, last, n) ==
    /\ Len(list) = (IF last > n THEN n ELSE last)
    /\ \A i \in DOMAIN list : list[i] = last - Len(list) + i

\* The operation thread t has completed n times.
Completed(t, op) ==
    IF threads[t].ops = {op} THEN threads[t].recorded ELSE 0

\* C40: the monitoring stores stay bounded after any sequence of
\* operations: the timers list holds at most 100 durations, the most recent
\* ones; the alerts list holds at most 100 alerts, the most recent ones;
\* each metric history holds at most max_points points and request_times at
\* most 1000 entries.
C40_StoresBounded ==
    /\ Len(metrics_collector.timers) <= TIMERS_KEPT
    /\ MostRecent(metrics_collector.timers, Completed(1, "record_timer"),
                  TIMERS_KEPT)
    /\ Len(health_checker.alerts) <= ALERTS_KEPT
    /\ MostRecent(health_checker.alerts, Completed(1, "add_alert"),
                  ALERTS_KEPT)
    /\ \A name \in DOMAIN metrics_collector.metrics :
          Len(metrics_collector.metrics[name])
              <= metrics_collector.max_points
    /\ Len(metrics_collector.request_times) <= REQUEST_TIMES_KEPT

\* More durations have been recorded than the timers list keeps: it is
\* full, its oldest entries are gone, and so is the history of the averages.
C40_Witness ==
    /\ threads[1].ops = {"record_timer"}
    /\ threads[1].recorded > TIMERS_KEPT
    /\ Len(metrics_collector.timers) = TIMERS_KEPT
    /\ Head(metrics_collector.timers) > 1
    /\ Len(metrics_collector.metrics[TimerMetric])
           = metrics_collector.max_points

====
